---- MODULE Spec2Model ----
(***************************************************************************)
(* Foodle frontend: the Home page's QR hand-off / realtime channel /       *)
(* location holder / view-mode selector, and the filter editor             *)
(* (FilterSliders inside InputBar).                                        *)
(*                                                                         *)
(* React state is modelled by one variable per useState / useRef cell.     *)
(* React 18 batches the setState calls of one handler continuation into    *)
(* one commit, so one action is one continuation (the code between two     *)
(* awaits, or one event-handler / timer callback) together with the        *)
(* effects that its commit triggers.  flushSync commits inside the         *)
(* handler, so a handler that goes on after flushSync is two actions.      *)
(***************************************************************************)
EXTENDS Integers, Sequences, FiniteSets, TLC

VARIABLES
    \* ---- FilterSliders / InputBar ----
    filters,            \* FilterSliders: useState filters (while hidden: the
                        \* value it is mounted with, initialFilters)
    currentFilters,     \* InputBar: useState currentFilters
    showFilters,        \* InputBar: useState showFilters (FilterSliders mounted)
    prefsLoad,          \* InputBar: loadSavedPreferences "pending" / "done"
    lastClicked,        \* history: the price button the last step clicked (0: none)
    lastRecords,        \* the change records of the last updateFilters call, in
                        \* the order sent (<<>> when something else came after)
    repeated,           \* history: that call had the arguments of the call before
    logPending,         \* POSTs to /api/log-filter-change not yet answered
    savePending,        \* POSTs to /api/save-preferences not yet answered
    \* ---- App ----
    appIsLoading,       \* App: useState isLoading
    appIsAuthenticated, \* App: useState isAuthenticated (the AuthContext value)
    pathname,           \* the router's location.pathname
    authRequests,       \* POSTs to /api/login and /api/logout in flight, each
                        \* with the component that sent it
    nextAuth,           \* the number of the next login or logout request
    homeTimers,         \* pending 1200 ms timeouts of navigate('/home')
    authToast,          \* the message of the last showToast call of
                        \* handleSignIn or handleLogout ("" when none)
    \* ---- ToastProvider ----
    toasts,             \* useState toasts
    toastClock,         \* Date.now()
    toastTimers,        \* pending timeouts of showToast, each with the id it
                        \* removes and the time it is due
    nextToast,          \* history: the number of the next showToast call
    \* ---- Home: the conversation ----
    messages,           \* useState messages: the list ChatArea renders
    nextId,             \* the next value of Date.now() used for an id
    messageRequests,    \* POSTs to /api/message in flight, each with the id
                        \* of the AI message its continuation updates
    homeIsLoading,      \* Home's useState isLoading
    homeCurrentFilters, \* Home's useState currentFilters
    sentWith,           \* history: for the id of each AI message, the filters
                        \* sent with its original request
    \* ---- PreviousMeals ----
    mealsMounted,       \* the page is mounted
    searchQuery,        \* useState searchQuery
    debouncedSearchQuery,  \* useState debouncedSearchQuery
    searchTimers,       \* pending 150 ms timeouts, each named by the
                        \* searchQuery its callback captured
    searchTimeoutRef,   \* searchTimeoutRef.current (Null or a timeout)
    previousMeals,      \* useState previousMeals, as the server returned it
    mealsLoading,       \* useState loading (fetchPreviousMeals in flight)
    removeRequest,      \* the DELETE in flight: its index and the meal of
                        \* the card whose Remove was pressed (Null: none)
    \* ---- requests ----
    requestLog,         \* the requests handed to fetch, oldest first
    \* ---- AIRecommendation ----
    aiStep,             \* where the recommendation attempt stands: "idle",
                        \* "profile", "position" (in getAIRecommendation),
                        \* "reqProfile", "reqPosition", "reqPost" (in
                        \* makeRecommendationRequest)
    isLoading,          \* useState isLoading
    recommendation,     \* useState recommendation (Null or a restaurant)
    userLocation,       \* useState userLocation (Null, or as sendingLocation)
    sendingLocation,    \* the local userLocation of makeRecommendationRequest
    alertShown,         \* the alert() of this attempt ("" when none)
    findRestaurantsCalled, \* onFindRestaurants() was called in this attempt
    posted,             \* POST /api/recommend-restaurant was sent in this attempt
    hasCallback,        \* the onFindRestaurants prop is given
    geolocationSupported,  \* navigator.geolocation is there
    storedSeen,         \* history: a profile read of this attempt held a location
    positionGranted,    \* history: getCurrentPosition succeeded in this attempt
    \* ---- Home ----
    mounted,            \* Home is mounted
    currentUserId,      \* useState currentUserId (0 is '')
    userEmail,          \* useState userEmail ("" until identity resolution)
    userName,           \* useState userName
    isAuthenticated,    \* useState isAuthenticated
    profileFetch,       \* fetchUserProfile: "pending" / "loaded" / "failed"
    qrCode,             \* useState qrCode (0 is '', n is the image of token n)
    qrToken,            \* useState qrToken (0 is '')
    hasUserInteracted,  \* useState hasUserInteracted
    forceHideQR,        \* useState forceHideQR
    mobileLocation,     \* useState mobileLocation (Null or a coordinate record)
    processing,         \* processingLocationUpdateRef.current
    socket,             \* useState socket (0 is null, n is the n-th socket)
    openSockets,        \* sockets created by io() and not yet closed
    nextSocket,         \* number of the next socket io() creates
    joins,              \* 'join-location-session' emits on open sockets: <<socket, token>>
    checks,             \* checkIfQRNeeded / checkQRWithoutGPS calls in flight
    genRequests,        \* POST /api/generate-location-qr requests in flight, each
                        \* with the check answer its generateMobileQR call followed
    nextToken,          \* the next token the backend mints
    serverUserId,       \* the user id the backend names this session's room by
                        \* (0 until a response has named it)
    expiryTimers,       \* tokens whose 10-minute setTimeout is pending
    recheckTimers,      \* pending 1-second "force hide again" timeouts
    processingTimers,   \* pending 2-second "clear the processing flag" timeouts
    locationTimers,     \* pending 5-minute mobileLocation timeouts: "latest" was set
                        \* by the last write, "earlier" by an overwritten one
    pendingEvent,       \* 'desktop-location-update' payload between flushSync
                        \* and the end of the handler (Null otherwise), with
                        \* whether the QR prompt was rendered when it arrived
    lastGenResult,      \* history: how the last generateMobileQR call ended
    lastWriteStale,     \* history: the coordinate written last was produced
                        \* before the one it overwrote
    leftTokens          \* history: tokens whose QR prompt was rendered and then left

filterVars == <<filters, currentFilters, showFilters, prefsLoad, lastClicked,
                lastRecords, repeated, logPending, savePending>>

homeVars == <<mounted, currentUserId, userEmail, userName, isAuthenticated, profileFetch,
              qrCode, qrToken, hasUserInteracted, forceHideQR, mobileLocation,
              processing, socket, openSockets, nextSocket, joins, checks,
              genRequests, nextToken, serverUserId, expiryTimers, recheckTimers,
              processingTimers, locationTimers, pendingEvent, lastGenResult,
              lastWriteStale, leftTokens>>

aiVars == <<aiStep, isLoading, recommendation, userLocation, sendingLocation,
            alertShown, findRestaurantsCalled, posted, hasCallback,
            geolocationSupported, storedSeen, positionGranted>>

netVars == <<requestLog>>

chatVars == <<messages, nextId, messageRequests, homeIsLoading, homeCurrentFilters,
             sentWith>>

mealVars == <<mealsMounted, searchQuery, debouncedSearchQuery, searchTimers,
              searchTimeoutRef, previousMeals, mealsLoading, removeRequest>>

appVars == <<appIsLoading, appIsAuthenticated, pathname, authRequests, nextAuth,
             homeTimers, authToast>>

toastVars == <<toasts, toastClock, toastTimers, nextToast>>

\* The pages and providers beside Home
pageVars == <<mealVars, appVars, toastVars>>

vars == <<filterVars, homeVars, aiVars, netVars, chatVars, pageVars>>

\* JavaScript null (a record, so that it compares with records)
Null == [null |-> TRUE]

(***************************************************************************)
(*                      FilterSliders and InputBar                         *)
(***************************************************************************)

\* priceLabels has the keys 1..4 (FilterSliders)
PriceLevels == 1..4

\* categoryLabels keys
Categories == {"any", "restaurant", "fast_food", "cafe", "bar"}

\* Array.prototype.includes
Includes(arr, x) == \E i \in 1..Len(arr) : arr[i] = x

\* Array.prototype.filter(p => p !== x)
FilterOut(arr, x) == SelectSeq(arr, LAMBDA p : p # x)

\* Array.prototype.sort((a, b) => a - b): insertion of each element in turn
RECURSIVE InsertSorted(_, _)
InsertSorted(arr, x) ==
    IF arr = <<>> THEN <<x>>
    ELSE IF x < Head(arr) THEN <<x>> \o arr
    ELSE <<Head(arr)>> \o InsertSorted(Tail(arr), x)

RECURSIVE SortAscending(_)
SortAscending(arr) ==
    IF arr = <<>> THEN <<>>
    ELSE InsertSorted(SortAscending(Tail(arr)), Head(arr))

\* A faulty toggle: removes the clicked level even when it is the only one.
TogglePriceLevelNoGuard(priceLevel, newPriceLevel) ==
    IF Includes(priceLevel, newPriceLevel)
    THEN FilterOut(priceLevel, newPriceLevel)
    ELSE SortAscending(Append(priceLevel, newPriceLevel))

\* The price button's multi-selection logic (newPriceLevels)
TogglePriceLevel(priceLevel, newPriceLevel) ==
    IF Includes(priceLevel, newPriceLevel)
    THEN IF Len(priceLevel) > 1
         THEN FilterOut(priceLevel, newPriceLevel)
         ELSE <<newPriceLevel>>
    ELSE SortAscending(Append(priceLevel, newPriceLevel))

\* useState default of InputBar.currentFilters (ratings in tenths of a star)
DefaultFilters ==
    [priceLevel |-> <<2>>, category |-> "any", maxDistance |-> 5,
     minRating |-> 40, maxRating |-> 50]

\* Positions of the distance slider (km) that are tried
Distances == {2, 5}

\* Positions of the rating range slider (tenths of a star) that are tried
RatingRanges == {<<35, 50>>, <<40, 50>>}

\* The price lists the client can have saved: every list the client ever saves
\* is one it produced itself, starting from <<2>>: sorted, without duplicates,
\* not empty.
RECURSIVE SortedSeqOf(_)
SortedSeqOf(S) ==
    IF S = {} THEN <<>>
    ELSE LET m == CHOOSE x \in S : \A y \in S : x <= y
         IN  <<m>> \o SortedSeqOf(S \ {m})

SavedPriceLevels == { SortedSeqOf(S) : S \in (SUBSET PriceLevels) \ {{}} }

\* Preference objects GET /api/get-preferences can return
SavedPreferences ==
    { [priceLevel |-> p, category |-> q[1], maxDistance |-> q[2],
       minRating |-> q[3][1], maxRating |-> q[3][2]] :
        p \in SavedPriceLevels,
        q \in {<<"any", 5, <<40, 50>>>>, <<"cafe", 2, <<35, 50>>>>} }

FiltersInit ==
    /\ filters = DefaultFilters
    /\ currentFilters = DefaultFilters
    /\ showFilters = FALSE
    /\ prefsLoad = "pending"
    /\ lastClicked = 0
    /\ lastRecords = <<>>
    /\ repeated = FALSE
    /\ logPending = 0
    /\ savePending = 0

\* Bound of the model: POSTs of the filter editor in flight at a time
MaxPosts == 2

\* { ...filters, ...newFilters }: newFilters is the sequence of the
\* <<key, value>> pairs of the object literal, in its order.
RECURSIVE Merge(_, _)
Merge(f, newFilters) ==
    IF newFilters = <<>> THEN f
    ELSE Merge([f EXCEPT ![Head(newFilters)[1]] = Head(newFilters)[2]],
               Tail(newFilters))

\* Change records for the keys whose value changes only.
ChangeRecordsOnlyChanged(f, newFilters) ==
    LET changed == SelectSeq(newFilters, LAMBDA kv : f[kv[1]] # kv[2])
    IN  [i \in 1..Len(changed) |->
            [changeType |-> changed[i][1],
             oldValue |-> f[changed[i][1]],
             newValue |-> changed[i][2],
             fullFilters |-> Merge(f, newFilters)]]

\* filterChangeDetails with the body of POST /api/log-filter-change made of
\* each: { changeType, oldValue, newValue, fullFilters } (the timestamp, a
\* wall-clock reading, is left out).  oldValue is read from the filters of
\* the render the handler belongs to.
ChangeRecords(f, newFilters) ==
    [i \in 1..Len(newFilters) |->
        [changeType |-> newFilters[i][1],
         oldValue |-> f[newFilters[i][1]],
         newValue |-> newFilters[i][2],
         fullFilters |-> Merge(f, newFilters)]]

\* The arguments of the call that produced the records rs
ArgumentsOf(rs) == [i \in 1..Len(rs) |-> <<rs[i].changeType, rs[i].newValue>>]

\* Whether two argument lists name the same keys with the same values
SameArguments(a, b) ==
    /\ Len(a) = Len(b)
    /\ \A i \in 1..Len(a) : a[i][1] = b[i][1]
    /\ \A i \in 1..Len(a) : a[i][2] = b[i][2]

\* InputBar.handleFiltersChange: setCurrentFilters(filters)
HandleFiltersChange(old, updated) == updated

\* FilterSliders.updateFilters: setFilters(updated); onFiltersChange(updated);
\* one sendFilterChangeToBackend per changed key, each starting with its
\* POST to /api/log-filter-change.  The initialFilters effect then sets
\* filters to the same object again.
UpdateFilters(newFilters) ==
    /\ logPending + savePending + Len(ChangeRecords(filters, newFilters)) <= MaxPosts
    /\ filters' = Merge(filters, newFilters)
    /\ currentFilters' = HandleFiltersChange(currentFilters, Merge(filters, newFilters))
    /\ lastRecords' = ChangeRecords(filters, newFilters)
    /\ repeated' = (lastRecords # <<>> /\ SameArguments(ArgumentsOf(lastRecords), newFilters))
    /\ logPending' = logPending + Len(ChangeRecords(filters, newFilters))
    /\ UNCHANGED savePending

\* onClick of the price button `level`
ClickPrice(level) ==
    /\ UNCHANGED <<homeVars, aiVars, netVars, chatVars, pageVars>>
    /\ showFilters
    /\ UpdateFilters(<< <<"priceLevel", TogglePriceLevel(filters.priceLevel, level)>> >>)
    /\ lastClicked' = level
    /\ UNCHANGED <<showFilters, prefsLoad>>

\* onChange of the category <select>
SelectCategory(c) ==
    /\ UNCHANGED <<homeVars, aiVars, netVars, chatVars, pageVars>>
    /\ showFilters
    /\ UpdateFilters(<< <<"category", c>> >>)
    /\ lastClicked' = 0
    /\ UNCHANGED <<showFilters, prefsLoad>>

\* onChange of the distance slider
SlideDistance(d) ==
    /\ UNCHANGED <<homeVars, aiVars, netVars, chatVars, pageVars>>
    /\ showFilters
    /\ UpdateFilters(<< <<"maxDistance", d>> >>)
    /\ lastClicked' = 0
    /\ UNCHANGED <<showFilters, prefsLoad>>

\* handleRatingChange: updateFilters({ minRating: value[0], maxRating: value[1] })
SlideRating(r) ==
    /\ UNCHANGED <<homeVars, aiVars, netVars, chatVars, pageVars>>
    /\ showFilters
    /\ UpdateFilters(<< <<"minRating", r[1]>>, <<"maxRating", r[2]>> >>)
    /\ lastClicked' = 0
    /\ UNCHANGED <<showFilters, prefsLoad>>

\* A filter editor that ignores initialFilters.
FiltersFromPropIgnored(initialFilters) == DefaultFilters

\* FilterSliders takes its filters from the initialFilters prop: as useState
\* initial value (initialFilters || defaults; InputBar always passes one), and
\* by setFilters(initialFilters) in the effect on [initialFilters].
FiltersFromProp(initialFilters) == initialFilters

\* toFixed(1) of a rating held in tenths: the digits before and after the point
ToFixed1(tenths) == <<tenths \div 10, tenths % 10>>

\* priceLabels[level]: '$' repeated level times, as the sequence of its characters
PriceLabel(level) == [i \in 1..level |-> "$"]

\* categoryLabels[category]
CategoryLabel(category) ==
    CASE category = "any" -> "Any Type"
      [] category = "restaurant" -> "Restaurant"
      [] category = "fast_food" -> "Fast Food"
      [] category = "cafe" -> "Cafe"
      [] category = "bar" -> "Bar"

\* The "Active:" summary: a chip per price level, the category chip unless
\* the category is 'any', the distance chip and the rating chip.
ActiveSummary(f) ==
    [prices |-> [i \in 1..Len(f.priceLevel) |-> PriceLabel(f.priceLevel[i])],
     category |-> IF f.category # "any" THEN <<CategoryLabel(f.category)>> ELSE <<>>,
     distance |-> f.maxDistance,
     rating |-> <<ToFixed1(f.minRating), ToFixed1(f.maxRating)>>]

\* The filter toggle button: setShowFilters(!showFilters).  Mounting
\* FilterSliders initialises its state from initialFilters = currentFilters.
ToggleFilters ==
    /\ UNCHANGED <<homeVars, aiVars, netVars, chatVars, pageVars>>
    /\ showFilters' = ~showFilters
    /\ filters' = FiltersFromProp(currentFilters)
    /\ lastClicked' = 0
    /\ lastRecords' = <<>>
    /\ repeated' = FALSE
    /\ UNCHANGED <<currentFilters, prefsLoad, logPending, savePending>>

\* loadSavedPreferences: the response has hasPreferences and preferences P:
\* setCurrentFilters(P); the initialFilters effect of a mounted FilterSliders
\* then does setFilters(P), and one mounted later starts with P.
LoadSavedPreferences(P) ==
    /\ UNCHANGED <<homeVars, aiVars, netVars, chatVars, pageVars>>
    /\ prefsLoad = "pending"
    /\ prefsLoad' = "done"
    /\ currentFilters' = P
    /\ filters' = FiltersFromProp(P)
    /\ lastClicked' = 0
    /\ lastRecords' = <<>>
    /\ repeated' = FALSE
    /\ UNCHANGED <<showFilters, logPending, savePending>>

\* loadSavedPreferences: no saved preferences, a non-2xx status or an error:
\* the defaults stay.
LoadNoPreferences ==
    /\ UNCHANGED <<homeVars, aiVars, netVars, chatVars, pageVars>>
    /\ prefsLoad = "pending"
    /\ prefsLoad' = "done"
    /\ UNCHANGED <<filters, currentFilters, showFilters, lastClicked,
                   lastRecords, repeated, logPending, savePending>>

\* The ways a POST can end: 2xx, another status, or a rejected fetch
PostOutcomes == {"ok", "non2xx", "error"}

\* sendFilterChangeToBackend after the logging POST: a response of any
\* status is followed by the POST to /api/save-preferences (a non-2xx one
\* after a warning); a rejected fetch goes to the catch, which only logs.
SaveFollows(outcome) == outcome # "error"

\* sendFilterChangeToBackend resumes after its logging POST.
LogAnswered(outcome) ==
    /\ UNCHANGED <<homeVars, aiVars, netVars, chatVars, pageVars>>
    /\ logPending > 0
    /\ logPending' = logPending - 1
    /\ savePending' = IF SaveFollows(outcome) THEN savePending + 1 ELSE savePending
    /\ UNCHANGED <<filters, currentFilters, showFilters, prefsLoad, lastClicked,
                   lastRecords, repeated>>

\* sendFilterChangeToBackend resumes after its auto-save POST: it logs the
\* result or a warning.
SaveAnswered(outcome) ==
    /\ UNCHANGED <<homeVars, aiVars, netVars, chatVars, pageVars>>
    /\ savePending > 0
    /\ savePending' = savePending - 1
    /\ UNCHANGED <<filters, currentFilters, showFilters, prefsLoad, lastClicked,
                   lastRecords, repeated, logPending>>

NextFilters ==
    \/ \E level \in PriceLevels : ClickPrice(level)
    \/ \E c \in Categories : SelectCategory(c)
    \/ \E d \in Distances : SlideDistance(d)
    \/ \E r \in RatingRanges : SlideRating(r)
    \/ \E outcome \in PostOutcomes : LogAnswered(outcome)
    \/ \E outcome \in PostOutcomes : SaveAnswered(outcome)
    \/ ToggleFilters
    \/ \E P \in SavedPreferences : LoadSavedPreferences(P)
    \/ LoadNoPreferences

(***************************************************************************)
(*                                 Home                                    *)
(***************************************************************************)

\* Bounds of the model
MaxUser == 2        \* user ids the backend can name are 1..MaxUser
MaxTimers == 2      \* pending 1-second (and 2-second) timeouts at a time
MaxCoord == 2       \* latitudes are 1..MaxCoord

\* The JSX conditional of Home's <main>, with the interaction flag left out.
RenderIgnoringInteraction(userId, code, interacted, forceHide) ==
    IF userId = 0 THEN "loading"
    ELSE IF code # 0 /\ ~forceHide THEN "qr-prompt"
    ELSE "chat"

\* The JSX conditional of Home's <main>:
\* !currentUserId ? loading : (qrCode && !hasUserInteracted && !forceHideQR) ? QR : chat
Render(userId, code, interacted, forceHide) ==
    IF userId = 0 THEN "loading"
    ELSE IF code # 0 /\ ~interacted /\ ~forceHide THEN "qr-prompt"
    ELSE "chat"

\* What Home renders in the current state
ViewMode == Render(currentUserId, qrCode, hasUserInteracted, forceHideQR)

\* What Home renders after the step
ViewModeNext == Render(currentUserId', qrCode', hasUserInteracted', forceHideQR')

\* history: when the step leaves the QR prompt, note the token it was left for
NoteLeft ==
    leftTokens' = IF ViewMode = "qr-prompt" /\ ViewModeNext # "qr-prompt"
                  THEN leftTokens \cup {qrToken}
                  ELSE leftTokens

HomeInit ==
    /\ mounted = TRUE
    /\ currentUserId = 0
    /\ userEmail = ""
    /\ userName = ""
    /\ isAuthenticated = FALSE
    /\ profileFetch = "pending"
    /\ qrCode = 0
    /\ qrToken = 0
    /\ hasUserInteracted = FALSE
    /\ forceHideQR = FALSE
    /\ mobileLocation = Null
    /\ processing = FALSE
    /\ socket = 0
    /\ openSockets = {}
    /\ nextSocket = 1
    /\ joins = {}
    /\ checks = {}
    /\ genRequests = {}
    /\ nextToken = 1
    /\ serverUserId = 0
    /\ expiryTimers = {}
    /\ recheckTimers = 0
    /\ processingTimers = 0
    /\ locationTimers = {}
    /\ pendingEvent = Null
    /\ lastGenResult = "none"
    /\ lastWriteStale = FALSE
    /\ leftTokens = {}

\* Home is mounted and no handler is between its flushSync and its end.
Idle == mounted /\ pendingEvent = Null

\* The auto-QR effect on [currentUserId, userEmail, userName]: the checks it
\* starts.  Stage "geo": checkIfQRNeeded has been called and no request is
\* out yet (the position is awaited, or navigator.geolocation is missing and
\* checkQRWithoutGPS comes next).  The closure of the call holds the render's
\* currentUserId and socket; the socket effect of the same commit has not run
\* yet, so that socket is the one of before the commit.
AutoQRChecks ==
    IF /\ \/ currentUserId' # currentUserId
          \/ userEmail' # userEmail
          \/ userName' # userName
       /\ currentUserId' # 0 /\ userEmail' # "" /\ userName' # ""
       /\ ~hasUserInteracted'
    THEN {[stage |-> "geo", uid |-> currentUserId', sock |-> socket]}
    ELSE {}

\* The socket effect, without its cleanup: the old socket stays open.
SocketEffectNoCleanup ==
    IF currentUserId' # currentUserId /\ currentUserId' # 0
    THEN /\ socket' = nextSocket
         /\ nextSocket' = nextSocket + 1
         /\ openSockets' = openSockets \cup {nextSocket}
    ELSE UNCHANGED <<socket, nextSocket, openSockets>>

\* The socket effect on [currentUserId]: its cleanup closes the socket it
\* opened (newSocket.close()), then io() opens a new one and setSocket stores it.
SocketEffect ==
    IF currentUserId' # currentUserId /\ currentUserId' # 0
    THEN /\ socket' = nextSocket
         /\ nextSocket' = nextSocket + 1
         /\ openSockets' = (openSockets \ {socket}) \cup {nextSocket}
    ELSE UNCHANGED <<socket, nextSocket, openSockets>>

\* The join effect, emitting only when the token changes (not when the
\* socket does).
JoinEffectTokenOnly(directJoins) ==
    joins' = { j \in joins \cup directJoins
                       \cup (IF qrToken' # qrToken /\ socket # 0 /\ qrToken' # 0
                             THEN {<<socket, qrToken'>>} ELSE {}) :
               j[1] \in openSockets' }
\* The join effect, emitting only when the socket changes (not when a new
\* token is stored).
JoinEffectSocketOnly(directJoins) ==
    joins' = { j \in joins \cup directJoins
                       \cup (IF socket' # socket /\ qrToken' # 0
                             THEN {<<socket', qrToken'>>} ELSE {}) :
               j[1] \in openSockets' }

\* The join effect on [socket, qrToken]: if (socket && qrToken) emit.  In a
\* commit that changes the token it runs with the socket of that render; when
\* the socket effect of the same commit stores a new socket it runs again with
\* the new one.  directJoins are the emits of the handler itself.  joins
\* keeps the emits made on sockets that are still open.
JoinEffect(directJoins) ==
    joins' = { j \in joins \cup directJoins
                       \cup (IF qrToken' # qrToken /\ socket # 0 /\ qrToken' # 0
                             THEN {<<socket, qrToken'>>} ELSE {})
                       \cup (IF socket' # socket /\ qrToken' # 0
                             THEN {<<socket', qrToken'>>} ELSE {}) :
               j[1] \in openSockets' }

\* The effects of a commit.  keptChecks are the checks still in flight.
CommitEffects(directJoins, keptChecks) ==
    /\ SocketEffect
    /\ JoinEffect(directJoins)
    /\ checks' = keptChecks \cup AutoQRChecks

\* fetchUserProfile resumes with a 2xx response: the database identity.
ProfileLoaded ==
    /\ UNCHANGED <<filterVars, aiVars, netVars, chatVars, pageVars>>
    /\ Idle
    /\ profileFetch = "pending"
    /\ profileFetch' = "loaded"
    /\ isAuthenticated' = TRUE
    /\ currentUserId' = 1
    /\ userEmail' = "email"
    /\ userName' = "first last"
    /\ UNCHANGED <<qrCode, qrToken, hasUserInteracted, forceHideQR>>
    /\ CommitEffects({}, checks)
    /\ NoteLeft
    /\ UNCHANGED <<mounted, lastGenResult, mobileLocation, processing, genRequests,
                   nextToken, serverUserId, expiryTimers, recheckTimers, processingTimers,
                   locationTimers, pendingEvent, lastWriteStale>>

\* How fetchUserProfile can fail: status 401, another non-2xx status, a
\* rejected fetch.
ProfileFailures == {"401", "non2xx", "error"}

\* An initializeFallbackUser that assigns an identity only when one is saved.
FallbackUserIdSavedOnly(saved) == IF saved THEN 2 ELSE 0

\* initializeFallbackUser: with a saved email and name in localStorage the id
\* is `fallback_<time>_<random>`, without them `anonymous_<time>_<random>`;
\* both are non-empty strings the server never issued (2 here).
FallbackUserId(saved) == 2

\* fetchUserProfile resumes with 401, another non-2xx status or an error:
\* each branch does setIsAuthenticated(false) and initializeFallbackUser (a
\* saved or an anonymous identity; both give a non-empty email and name).
ProfileFailed(outcome, saved) ==
    /\ UNCHANGED <<filterVars, aiVars, netVars, chatVars, pageVars>>
    /\ Idle
    /\ profileFetch = "pending"
    /\ profileFetch' = "failed"
    /\ isAuthenticated' = FALSE
    /\ currentUserId' = FallbackUserId(saved)
    /\ userEmail' = "fallback email"
    /\ userName' = "fallback name"
    /\ UNCHANGED <<qrCode, qrToken, hasUserInteracted, forceHideQR>>
    /\ CommitEffects({}, checks)
    /\ NoteLeft
    /\ UNCHANGED <<mounted, lastGenResult, mobileLocation, processing, genRequests,
                   nextToken, serverUserId, expiryTimers, recheckTimers, processingTimers,
                   locationTimers, pendingEvent, lastWriteStale>>

\* What a check does with the backend's answer.  With coordinates
\* (checkIfQRNeeded): showQR generates, a non-2xx status falls back to
\* checkQRWithoutGPS, and a rejected fetch ends the un-awaited async
\* callback.  Without coordinates (checkQRWithoutGPS): showQR generates, and
\* so do a non-2xx status and a rejected fetch ("final fallback").
\* This variant generates on every answer.
CheckDecisionAlways(stage, outcome) == "generate"

CheckDecision(stage, outcome) ==
    IF outcome = "showQR" THEN "generate"
    ELSE IF outcome = "noQR" THEN "nothing"
    ELSE IF stage = "gps"
         THEN (IF outcome = "non2xx" THEN "withoutGPS" ELSE "nothing")
         ELSE "generate"

\* generateMobileQR, up to its await of the fetch: skipped while a location
\* update is being processed or when the closure has no user data; otherwise
\* setQrCode(''), setHasUserInteracted(false), setForceHideQR(false) and the
\* POST /api/generate-location-qr with the closure's currentUserId.  answer
\* (history) is the check answer the call follows: <<stage, outcome>>.
GenerateMobileQR(c, answer) ==
    IF processing \/ c.uid = 0
    THEN UNCHANGED <<qrCode, hasUserInteracted, forceHideQR, genRequests>>
    ELSE /\ qrCode' = 0
         /\ hasUserInteracted' = FALSE
         /\ forceHideQR' = FALSE
         /\ genRequests' = genRequests
               \cup {[uid |-> c.uid, sock |-> c.sock, after |-> answer]}

\* getCurrentPosition succeeds: POST /api/check-qr-needed with coordinates.
GeoPosition(c) ==
    /\ UNCHANGED <<filterVars, aiVars, netVars, chatVars, pageVars>>
    /\ Idle
    /\ c \in checks /\ c.stage = "geo"
    /\ checks' = (checks \ {c}) \cup {[c EXCEPT !.stage = "gps"]}
    /\ UNCHANGED <<mounted, lastGenResult, currentUserId, userEmail, userName, isAuthenticated,
                   profileFetch, qrCode, qrToken, hasUserInteracted, forceHideQR,
                   mobileLocation, processing, socket,
                   openSockets, nextSocket, joins, genRequests, nextToken, serverUserId,
                   expiryTimers, recheckTimers, processingTimers, locationTimers,
                   pendingEvent, lastWriteStale, leftTokens>>

\* getCurrentPosition fails, or navigator.geolocation is missing:
\* checkQRWithoutGPS, POST without coordinates.
GeoError(c) ==
    /\ UNCHANGED <<filterVars, aiVars, netVars, chatVars, pageVars>>
    /\ Idle
    /\ c \in checks /\ c.stage = "geo"
    /\ checks' = (checks \ {c}) \cup {[c EXCEPT !.stage = "nogps"]}
    /\ UNCHANGED <<mounted, lastGenResult, currentUserId, userEmail, userName, isAuthenticated,
                   profileFetch, qrCode, qrToken, hasUserInteracted, forceHideQR,
                   mobileLocation, processing, socket,
                   openSockets, nextSocket, joins, genRequests, nextToken, serverUserId,
                   expiryTimers, recheckTimers, processingTimers, locationTimers,
                   pendingEvent, lastWriteStale, leftTokens>>

\* The answers of POST /api/check-qr-needed: 2xx with showQR true or false, a
\* non-2xx status, or a rejected fetch.
CheckOutcomes == {"showQR", "noQR", "non2xx", "error"}

\* A check resumes with the backend's answer.
CheckResponse(c, outcome) ==
    /\ UNCHANGED <<filterVars, aiVars, netVars, chatVars, pageVars>>
    /\ Idle
    /\ c \in checks /\ c.stage \in {"gps", "nogps"}
    /\ IF CheckDecision(c.stage, outcome) = "generate"
       THEN GenerateMobileQR(c, <<c.stage, outcome>>)
       ELSE UNCHANGED <<qrCode, hasUserInteracted, forceHideQR, genRequests>>
    /\ UNCHANGED <<currentUserId, userEmail, userName, qrToken>>
    /\ CommitEffects({}, IF CheckDecision(c.stage, outcome) = "withoutGPS"
                         THEN (checks \ {c}) \cup {[c EXCEPT !.stage = "nogps"]}
                         ELSE checks \ {c})
    /\ NoteLeft
    /\ UNCHANGED <<mounted, lastGenResult, isAuthenticated, profileFetch, mobileLocation, processing,
                   nextToken, serverUserId, expiryTimers, recheckTimers,
                   processingTimers, locationTimers, pendingEvent,
                   lastWriteStale>>

\* The catch of generateMobileQR, which retries the request.
GenFailedRetry(r) ==
    /\ UNCHANGED <<filterVars, aiVars, netVars, chatVars, pageVars>>
    /\ Idle
    /\ r \in genRequests
    /\ qrCode' = 0
    /\ qrToken' = 0
    /\ UNCHANGED genRequests
    /\ UNCHANGED <<currentUserId, userEmail, userName, hasUserInteracted, forceHideQR>>
    /\ CommitEffects({}, checks)
    /\ NoteLeft
    /\ lastGenResult' = "failed"
    /\ UNCHANGED <<mounted, isAuthenticated, profileFetch, mobileLocation, processing,
                   nextToken, serverUserId, expiryTimers, recheckTimers,
                   processingTimers, locationTimers, pendingEvent,
                   lastWriteStale>>

\* generateMobileQR resumes with a non-2xx status or a rejected fetch: the
\* catch does setQrCode(''), setQrToken('') and nothing else.
GenFailed(r) ==
    /\ UNCHANGED <<filterVars, aiVars, netVars, chatVars, pageVars>>
    /\ Idle
    /\ r \in genRequests
    /\ qrCode' = 0
    /\ qrToken' = 0
    /\ genRequests' = genRequests \ {r}
    /\ UNCHANGED <<currentUserId, userEmail, userName, hasUserInteracted, forceHideQR>>
    /\ CommitEffects({}, checks)
    /\ NoteLeft
    /\ lastGenResult' = "failed"
    /\ UNCHANGED <<mounted, isAuthenticated, profileFetch, mobileLocation, processing,
                   nextToken, serverUserId, expiryTimers, recheckTimers,
                   processingTimers, locationTimers, pendingEvent,
                   lastWriteStale>>

\* if (data.userId && data.userId !== currentUserId) setCurrentUserId(data.userId),
\* where currentUserId is the closure's (the id sent): the id Home holds next.
AdoptedUserId(current, sent, dataUserId) ==
    IF dataUserId # 0 /\ dataUserId # sent THEN dataUserId ELSE current

\* A response that leaves the token Home holds in place.
StoredTokenKeepOld(old, issued) == IF old # 0 THEN old ELSE issued

\* setQrToken(data.token): the token Home holds after a response with a QR code
StoredToken(old, issued) == issued

\* A store that starts a timer only when none is pending.
WithExpiryTimerIfNone(timers, token) == IF timers = {} THEN {token} ELSE timers

\* setTimeout(..., 10 * 60 * 1000) next to setQrToken(data.token): every
\* stored token gets a timer of its own, and no earlier timer is cancelled.
WithExpiryTimer(timers, token) == timers \cup {token}

\* generateMobileQR resumes with a 2xx response.  dataUserId is data.userId
\* (0: absent): the backend names the room by one user id per session.
\* hasQr tells whether data.qrCode is there, and then the backend's fresh
\* token comes with it.  With a QR code: setQrCode,
\* setQrToken, the direct join emit on the closure's socket, and the
\* 10-minute timer.
GenSucceeded(r, dataUserId, hasQr) ==
    /\ UNCHANGED <<filterVars, aiVars, netVars, chatVars, pageVars>>
    /\ Idle
    /\ r \in genRequests
    /\ dataUserId \in {0} \cup (IF serverUserId = 0 THEN 1..MaxUser ELSE {serverUserId})
    /\ serverUserId' = IF dataUserId # 0 THEN dataUserId ELSE serverUserId
    /\ genRequests' = genRequests \ {r}
    /\ currentUserId' = AdoptedUserId(currentUserId, r.uid, dataUserId)
    /\ IF hasQr
       THEN /\ qrCode' = nextToken
            /\ qrToken' = StoredToken(qrToken, nextToken)
            /\ nextToken' = nextToken + 1
            /\ expiryTimers' = WithExpiryTimer(expiryTimers, nextToken)
       ELSE UNCHANGED <<qrCode, qrToken, nextToken, expiryTimers>>
    /\ UNCHANGED <<userEmail, userName, hasUserInteracted, forceHideQR>>
    /\ CommitEffects(IF hasQr /\ r.sock # 0 THEN {<<r.sock, nextToken>>} ELSE {},
                     checks)
    /\ NoteLeft
    /\ lastGenResult' = IF hasQr THEN "code" ELSE "no code"
    /\ UNCHANGED <<mounted, isAuthenticated, profileFetch, mobileLocation, processing,
                   recheckTimers, processingTimers,
                   locationTimers, pendingEvent, lastWriteStale>>

\* The 10-minute timeout set with token t fires: setQrCode(''), setQrToken('').
ExpiryTimer(t) ==
    /\ UNCHANGED <<filterVars, aiVars, netVars, chatVars, pageVars>>
    /\ Idle
    /\ t \in expiryTimers
    /\ expiryTimers' = expiryTimers \ {t}
    /\ qrCode' = 0
    /\ qrToken' = 0
    /\ UNCHANGED <<currentUserId, userEmail, userName, hasUserInteracted, forceHideQR>>
    /\ CommitEffects({}, checks)
    /\ NoteLeft
    /\ UNCHANGED <<mounted, lastGenResult, isAuthenticated, profileFetch, mobileLocation, processing,
                   genRequests, nextToken, serverUserId, recheckTimers,
                   processingTimers, locationTimers, pendingEvent,
                   lastWriteStale>>

\* sendMessage, as far as the QR state goes: setQrCode(''),
\* setHasUserInteracted(true).  (InputBar is rendered in every view mode.)
SendMessageQR ==
    /\ Idle
    /\ qrCode' = 0
    /\ hasUserInteracted' = TRUE
    /\ UNCHANGED <<currentUserId, userEmail, userName, qrToken, forceHideQR>>
    /\ CommitEffects({}, checks)
    /\ NoteLeft
    /\ UNCHANGED <<mounted, lastGenResult, isAuthenticated, profileFetch, mobileLocation, processing,
                   genRequests, nextToken, serverUserId, expiryTimers,
                   recheckTimers, processingTimers, locationTimers, pendingEvent,
                   lastWriteStale>>

\* sendMessage with the conversation left aside (its part on the message
\* list is AppendExchange; SendMessageText is the two together).
SendMessage ==
    /\ UNCHANGED <<filterVars, aiVars, netVars, chatVars, pageVars>>
    /\ SendMessageQR

\* ---- realtime events ----

\* accuracy values of a payload; NoAccuracy stands for an absent field
NoAccuracy == -1
Accuracies == {NoAccuracy, 5}
Latitudes == 1..MaxCoord
Longitudes == {MaxCoord + 1}

\* Payloads of 'desktop-location-update': the coordinate under data.location,
\* or at the top level, or nowhere.  stale tells that the phone produced
\* this coordinate before the one Home holds (it arrives out of order); Home
\* never reads it.
LocationPayloads ==
    [shape : {"location", "flat"}, latitude : Latitudes, longitude : Longitudes,
     accuracy : Accuracies, stale : BOOLEAN]
    \cup {[shape |-> "none", latitude |-> 0, longitude |-> 0,
           accuracy |-> NoAccuracy, stale |-> FALSE]}

\* The backend sends room events to a socket that is open and has asked to
\* join a room.
CanReceive == socket \in openSockets /\ \E j \in joins : j[1] = socket

\* The flushSync block without setQrToken('').
HideQRKeepToken ==
    /\ qrCode' = 0
    /\ hasUserInteracted' = TRUE
    /\ forceHideQR' = TRUE
    /\ UNCHANGED qrToken

\* flushSync(() => { setQrCode(''); setQrToken(''); setHasUserInteracted(true);
\* setForceHideQR(true); }): one commit.
HideQR ==
    /\ qrCode' = 0
    /\ qrToken' = 0
    /\ hasUserInteracted' = TRUE
    /\ forceHideQR' = TRUE

\* The 'hide-qr-code' handler (its 1-second timeout only logs).
OnHideQrCode ==
    /\ UNCHANGED <<filterVars, aiVars, netVars, chatVars, pageVars>>
    /\ Idle
    /\ CanReceive
    /\ HideQR
    /\ UNCHANGED <<currentUserId, userEmail, userName>>
    /\ CommitEffects({}, checks)
    /\ NoteLeft
    /\ UNCHANGED <<mounted, lastGenResult, isAuthenticated, profileFetch, mobileLocation, processing,
                   genRequests, nextToken, serverUserId, expiryTimers,
                   recheckTimers, processingTimers, locationTimers, pendingEvent,
                   lastWriteStale>>

\* The 'desktop-location-update' handler up to the end of its flushSync: the
\* processing flag, the flushSync commit, and the 1-second timeout is set;
\* the handler goes on in FinishLocationUpdate.  (locationUpdateCountRef is
\* only logged and is left out.)
OnDesktopLocationUpdate(data) ==
    /\ UNCHANGED <<filterVars, aiVars, netVars, chatVars, pageVars>>
    /\ Idle
    /\ CanReceive
    /\ recheckTimers < MaxTimers /\ processingTimers < MaxTimers
    /\ data.stale => mobileLocation # Null
    /\ processing' = TRUE
    /\ HideQR
    /\ recheckTimers' = recheckTimers + 1
    /\ pendingEvent' = [data |-> data, shownBefore |-> ViewMode = "qr-prompt"]
    /\ UNCHANGED <<currentUserId, userEmail, userName>>
    /\ CommitEffects({}, checks)
    /\ NoteLeft
    /\ UNCHANGED <<mounted, lastGenResult, isAuthenticated, profileFetch, mobileLocation, genRequests,
                   nextToken, serverUserId, expiryTimers, processingTimers, locationTimers,
                   lastWriteStale>>

\* Whether the handler finds coordinates in the payload
HasCoordinates(data) == data.shape # "none"

\* The extraction that keeps the old location when it has one.
ExtractCoordinatesKeepOld(data, old) ==
    IF old # Null THEN old
    ELSE [latitude |-> data.latitude, longitude |-> data.longitude,
          accuracy |-> IF data.accuracy = NoAccuracy THEN 0 ELSE data.accuracy]

\* "Extract coordinates": latitude and longitude as sent, accuracy || 0.  The
\* location held before (old) is not read.
ExtractCoordinates(data, old) ==
    [latitude |-> data.latitude, longitude |-> data.longitude,
     accuracy |-> IF data.accuracy = NoAccuracy THEN 0 ELSE data.accuracy]
\* The mobileLocation effect without its cleanup: the timeout of the
\* overwritten write stays pending.
MobileLocationEffectNoCleanup ==
    locationTimers' = (IF locationTimers = {} THEN {} ELSE {"earlier"}) \cup {"latest"}

\* The effect on [mobileLocation] after a write (a new object each time): its
\* cleanup does clearTimeout on the timeout of the previous run, then
\* setTimeout(5 * 60 * 1000) sets the one of this write.
MobileLocationEffect ==
    locationTimers' = (locationTimers \ {"latest"}) \cup {"latest"}

\* The rest of the 'desktop-location-update' handler.  Without coordinates it
\* returns.  With coordinates: setMobileLocation, whose effect clears the
\* pending 5-minute timeout and sets a new one; findRestaurantsWithLocation
\* (a POST whose answer is only logged); the 2-second timeout that clears the
\* processing flag.
FinishLocationUpdate ==
    /\ UNCHANGED <<filterVars, aiVars, netVars, chatVars, pageVars>>
    /\ pendingEvent # Null
    /\ pendingEvent' = Null
    /\ IF HasCoordinates(pendingEvent.data)
       THEN /\ mobileLocation' = ExtractCoordinates(pendingEvent.data, mobileLocation)
            /\ MobileLocationEffect
            /\ processingTimers' = processingTimers + 1
            /\ lastWriteStale' = pendingEvent.data.stale
       ELSE UNCHANGED <<mobileLocation, locationTimers, processingTimers,
                        lastWriteStale>>
    /\ UNCHANGED <<mounted, lastGenResult, currentUserId, userEmail, userName, isAuthenticated,
                   profileFetch, qrCode, qrToken, hasUserInteracted, forceHideQR,
                   processing, socket, openSockets,
                   nextSocket, joins, checks, genRequests, nextToken, serverUserId,
                   expiryTimers, recheckTimers, leftTokens>>

\* The 1-second timeout of the location-update handler: when qrCodeRef.current
\* (kept equal to qrCode by its effect) is set, setQrCode(''), setQrToken(''),
\* setHasUserInteracted(true).
RecheckTimer ==
    /\ UNCHANGED <<filterVars, aiVars, netVars, chatVars, pageVars>>
    /\ Idle
    /\ recheckTimers > 0
    /\ recheckTimers' = recheckTimers - 1
    /\ IF qrCode # 0
       THEN /\ qrCode' = 0
            /\ qrToken' = 0
            /\ hasUserInteracted' = TRUE
       ELSE UNCHANGED <<qrCode, qrToken, hasUserInteracted>>
    /\ UNCHANGED <<currentUserId, userEmail, userName, forceHideQR>>
    /\ CommitEffects({}, checks)
    /\ NoteLeft
    /\ UNCHANGED <<mounted, lastGenResult, isAuthenticated, profileFetch, mobileLocation, processing,
                   genRequests, nextToken, serverUserId, expiryTimers,
                   processingTimers, locationTimers, pendingEvent,
                   lastWriteStale>>

\* The 2-second timeout of the location-update handler.
ProcessingTimer ==
    /\ UNCHANGED <<filterVars, aiVars, netVars, chatVars, pageVars>>
    /\ Idle
    /\ processingTimers > 0
    /\ processingTimers' = processingTimers - 1
    /\ processing' = FALSE
    /\ UNCHANGED <<mounted, lastGenResult, currentUserId, userEmail, userName, isAuthenticated,
                   profileFetch, qrCode, qrToken, hasUserInteracted, forceHideQR,
                   mobileLocation, socket, openSockets,
                   nextSocket, joins, checks, genRequests, nextToken, serverUserId,
                   expiryTimers, recheckTimers, locationTimers, pendingEvent,
                   lastWriteStale,
                   leftTokens>>

\* A 5-minute timeout of the mobileLocation effect fires:
\* setMobileLocation(null); the effect runs again, and its cleanup clears the
\* timeout of the previous run.
LocationTimer(t) ==
    /\ UNCHANGED <<filterVars, aiVars, netVars, chatVars, pageVars>>
    /\ Idle
    /\ t \in locationTimers
    /\ locationTimers' = locationTimers \ {t, "latest"}
    /\ mobileLocation' = Null
    /\ UNCHANGED <<mounted, lastGenResult, currentUserId, userEmail, userName, isAuthenticated,
                   profileFetch, qrCode, qrToken, hasUserInteracted, forceHideQR,
                   processing, socket, openSockets,
                   nextSocket, joins, checks, genRequests, nextToken, serverUserId,
                   expiryTimers, recheckTimers, processingTimers, pendingEvent,
                   lastWriteStale,
                   leftTokens>>

\* Home unmounts: the cleanup of the socket effect closes its socket, and the
\* cleanup of the mobileLocation effect clears the 5-minute timeout.  What
\* resumes later finds no component to update.
Unmount ==
    /\ UNCHANGED <<filterVars, aiVars, netVars, chatVars, pageVars>>
    /\ Idle
    /\ mounted' = FALSE
    /\ openSockets' = openSockets \ {socket}
    /\ joins' = { j \in joins : j[1] \in openSockets' }
    /\ locationTimers' = locationTimers \ {"latest"}
    /\ UNCHANGED <<lastGenResult, currentUserId, userEmail, userName, isAuthenticated,
                   profileFetch, qrCode, qrToken, hasUserInteracted, forceHideQR,
                   mobileLocation, processing, socket,
                   nextSocket, checks, genRequests, nextToken, serverUserId,
                   expiryTimers, recheckTimers, processingTimers, pendingEvent,
                   lastWriteStale, leftTokens>>

NextHome ==
    \/ ProfileLoaded
    \/ \E outcome \in ProfileFailures, saved \in BOOLEAN : ProfileFailed(outcome, saved)
    \/ \E c \in checks : GeoPosition(c)
    \/ \E c \in checks : GeoError(c)
    \/ \E c \in checks, outcome \in CheckOutcomes : CheckResponse(c, outcome)
    \/ \E r \in genRequests : GenFailed(r)
    \/ \E r \in genRequests, dataUserId \in 0..MaxUser, hasQr \in BOOLEAN :
          GenSucceeded(r, dataUserId, hasQr)
    \/ \E t \in expiryTimers : ExpiryTimer(t)
    \/ SendMessage
    \/ OnHideQrCode
    \/ \E data \in LocationPayloads : OnDesktopLocationUpdate(data)
    \/ FinishLocationUpdate
    \/ RecheckTimer
    \/ ProcessingTimer
    \/ \E t \in locationTimers : LocationTimer(t)
    \/ Unmount

(***************************************************************************)
(*                           AIRecommendation                              *)
(***************************************************************************)

AIInit ==
    /\ aiStep = "idle"
    /\ isLoading = FALSE
    /\ recommendation = Null
    /\ userLocation = Null
    /\ sendingLocation = Null
    /\ alertShown = ""
    /\ findRestaurantsCalled = FALSE
    /\ posted = FALSE
    /\ hasCallback = FALSE
    /\ geolocationSupported = FALSE
    /\ storedSeen = FALSE
    /\ positionGranted = FALSE

\* The answers of GET /api/user/profile: 2xx with a lastKnownLocation at most
\* 24 hours old, with an older one, without one; a non-2xx status or a
\* rejected fetch.
ProfileAnswers == {"fresh", "old", "none", "failed"}

\* The profile answer holds a lastKnownLocation with latitude and longitude
HoldsLocation(answer) == answer \in {"fresh", "old"}

\* The button's onClick, getAIRecommendation up to its first await:
\* setIsLoading(true), setRecommendation(null), GET /api/user/profile.  The
\* button is disabled while isLoading.  callback and supported are the
\* onFindRestaurants prop and navigator.geolocation of this mount.
ClickRecommend(callback, supported) ==
    /\ UNCHANGED <<filterVars, homeVars, netVars, chatVars, pageVars>>
    /\ aiStep = "idle" /\ ~isLoading
    /\ aiStep' = "profile"
    /\ isLoading' = TRUE
    /\ recommendation' = Null
    /\ hasCallback' = callback
    /\ geolocationSupported' = supported
    /\ alertShown' = ""
    /\ findRestaurantsCalled' = FALSE
    /\ posted' = FALSE
    /\ storedSeen' = FALSE
    /\ positionGranted' = FALSE
    /\ sendingLocation' = Null
    /\ UNCHANGED userLocation

\* A fallback that always alerts.
NoLocationFallbackAlert(callback, supported) ==
    IF supported THEN "enable location" ELSE "not supported"

\* getAIRecommendation without a position: with the onFindRestaurants prop
\* it is called ("QR code as last resort"), without it an alert is shown:
\* 'Location access is required for restaurant recommendations. Please enable
\* location access.' after a failed getCurrentPosition, 'Geolocation is not
\* supported by this browser.' without navigator.geolocation.
NoLocationFallback(callback, supported) ==
    IF callback THEN "findRestaurants"
    ELSE IF supported THEN "enable location" ELSE "not supported"

\* The end of getAIRecommendation without a position: setIsLoading(false) and
\* the fallback.
EndWithoutPosition ==
    /\ aiStep' = "idle"
    /\ isLoading' = FALSE
    /\ IF NoLocationFallback(hasCallback, geolocationSupported) = "findRestaurants"
       THEN findRestaurantsCalled' = TRUE /\ UNCHANGED alertShown
       ELSE /\ alertShown' = NoLocationFallback(hasCallback, geolocationSupported)
            /\ UNCHANGED findRestaurantsCalled

\* getAIRecommendation resumes with the profile: a stored location at most 24
\* hours old goes to makeRecommendationRequest; otherwise getCurrentPosition
\* is called, or, without navigator.geolocation, the fallback is taken.
ProfileAnswered(answer) ==
    /\ UNCHANGED <<filterVars, homeVars, netVars, chatVars, pageVars>>
    /\ aiStep = "profile"
    /\ storedSeen' = (storedSeen \/ HoldsLocation(answer))
    /\ IF answer = "fresh"
       THEN /\ aiStep' = "reqProfile"
            /\ UNCHANGED <<isLoading, alertShown, findRestaurantsCalled>>
       ELSE IF geolocationSupported
       THEN /\ aiStep' = "position"
            /\ UNCHANGED <<isLoading, alertShown, findRestaurantsCalled>>
       ELSE EndWithoutPosition
    /\ UNCHANGED <<recommendation, userLocation, sendingLocation, posted,
                   hasCallback, geolocationSupported, positionGranted>>

\* The callbacks of getCurrentPosition in getAIRecommendation: success goes
\* to makeRecommendationRequest, error takes the fallback.
PositionAnswered(granted) ==
    /\ UNCHANGED <<filterVars, homeVars, netVars, chatVars, pageVars>>
    /\ aiStep = "position"
    /\ positionGranted' = (positionGranted \/ granted)
    /\ IF granted
       THEN /\ aiStep' = "reqProfile"
            /\ UNCHANGED <<isLoading, alertShown, findRestaurantsCalled>>
       ELSE EndWithoutPosition
    /\ UNCHANGED <<recommendation, userLocation, sendingLocation, posted,
                   hasCallback, geolocationSupported, storedSeen>>

\* makeRecommendationRequest without a location: throw new Error('Location is
\* required for restaurant recommendations. Please enable location access or
\* scan the QR code with your phone.'), which the catch shows in an alert;
\* finally setIsLoading(false).
EndNoLocation ==
    /\ aiStep' = "idle"
    /\ isLoading' = FALSE
    /\ alertShown' = "enable location or scan QR"
    /\ UNCHANGED <<sendingLocation, posted>>

\* makeRecommendationRequest sends POST /api/recommend-restaurant with loc:
\* "gps", or the profile answer ("fresh" or "old") whose lastKnownLocation
\* it took.
PostRecommendation(loc) ==
    /\ aiStep' = "reqPost"
    /\ sendingLocation' = loc
    /\ posted' = TRUE
    /\ UNCHANGED <<isLoading, alertShown>>

\* makeRecommendationRequest resumes with the profile: a stored location (of
\* any age) is sent; without one getCurrentPosition is awaited, or, without
\* navigator.geolocation, the error is thrown.
ReqProfileAnswered(answer) ==
    /\ UNCHANGED <<filterVars, homeVars, netVars, chatVars, pageVars>>
    /\ aiStep = "reqProfile"
    /\ storedSeen' = (storedSeen \/ HoldsLocation(answer))
    /\ IF HoldsLocation(answer) THEN PostRecommendation(answer)
       ELSE IF geolocationSupported
       THEN /\ aiStep' = "reqPosition"
            /\ UNCHANGED <<isLoading, alertShown, sendingLocation, posted>>
       ELSE EndNoLocation
    /\ UNCHANGED <<recommendation, userLocation, findRestaurantsCalled,
                   hasCallback, geolocationSupported, positionGranted>>

\* makeRecommendationRequest resumes after getCurrentPosition.
ReqPositionAnswered(granted) ==
    /\ UNCHANGED <<filterVars, homeVars, netVars, chatVars, pageVars>>
    /\ aiStep = "reqPosition"
    /\ positionGranted' = (positionGranted \/ granted)
    /\ IF granted THEN PostRecommendation("gps") ELSE EndNoLocation
    /\ UNCHANGED <<recommendation, userLocation, findRestaurantsCalled,
                   hasCallback, geolocationSupported, storedSeen>>

\* makeRecommendationRequest resumes after the POST: 2xx stores the location
\* and the restaurant; a non-2xx status or a rejected fetch is shown in an
\* alert; finally setIsLoading(false).
PostAnswered(outcome) ==
    /\ UNCHANGED <<filterVars, homeVars, netVars, chatVars, pageVars>>
    /\ aiStep = "reqPost"
    /\ aiStep' = "idle"
    /\ isLoading' = FALSE
    /\ IF outcome = "ok"
       THEN /\ userLocation' = sendingLocation
            /\ recommendation' = [restaurant |-> TRUE]
            /\ UNCHANGED alertShown
       ELSE /\ alertShown' = (IF outcome = "error" THEN "cannot connect" ELSE "HTTP status")
            /\ UNCHANGED <<userLocation, recommendation>>
    /\ UNCHANGED <<sendingLocation, findRestaurantsCalled, posted, hasCallback,
                   geolocationSupported, storedSeen, positionGranted>>

NextAI ==
    \/ \E callback \in BOOLEAN, supported \in BOOLEAN : ClickRecommend(callback, supported)
    \/ \E answer \in ProfileAnswers : ProfileAnswered(answer)
    \/ \E granted \in BOOLEAN : PositionAnswered(granted)
    \/ \E answer \in ProfileAnswers : ReqProfileAnswered(answer)
    \/ \E granted \in BOOLEAN : ReqPositionAnswered(granted)
    \/ \E outcome \in PostOutcomes : PostAnswered(outcome)

(***************************************************************************)
(*                        Requests to the backend                          *)
(***************************************************************************)

MaxRequests == 2

\* {...a, ...b}: the members of a overridden by those of b
Spread(a, b) ==
    [k \in DOMAIN a \cup DOMAIN b |-> IF k \in DOMAIN b THEN b[k] ELSE a[k]]

\* defaultFetchOptions (the headers are left out: every site sends JSON)
defaultFetchOptions == [credentials |-> "include"]

\* What fetch(url, init) sends: the method defaults to GET and the
\* credentials mode to same-origin, which sends no cookies to another origin
\* (API_BASE_URL is another origin than the page).
Fetch(url, init) ==
    [url |-> url,
     method |-> IF "method" \in DOMAIN init THEN init.method ELSE "GET",
     credentials |-> IF "credentials" \in DOMAIN init THEN init.credentials
                     ELSE "same-origin"]

\* apiCall(endpoint, options): fetch(url, {...defaultFetchOptions, ...options})
apiCall(endpoint, options) == Fetch(endpoint, Spread(defaultFetchOptions, options))

\* The init objects found at the call sites
Post == [method |-> "POST"]
GetInclude == [method |-> "GET", credentials |-> "include"]
PostInclude == [method |-> "POST", credentials |-> "include"]
OnlyInclude == [credentials |-> "include"]
NoOptions == [k \in {} |-> ""]

\* The direct fetch calls of FilterSliders (sendFilterChangeToBackend) and
\* WalkingMap
FilterSlidersFetches ==
    { <<"/api/log-filter-change", Post>>,
      <<"/api/save-preferences", PostInclude>>,
      <<"/api/walking-directions", Post>> }

\* The direct fetch calls of InputBar
InputBarFetches ==
    { <<"/api/get-preferences", GetInclude>>,
      <<"/api/log-filter-change", Post>> }

\* The direct fetch calls of Profile and Home
HomeFetches ==
    { <<"/api/detect-country", PostInclude>>,
      <<"/api/user/profile", GetInclude>>,
      <<"/api/check-qr-needed", PostInclude>>,
      <<"/api/message", PostInclude>>,
      <<"/api/save-recommendation", PostInclude>>,
      <<"/api/update-user-location", PostInclude>>,
      <<"/api/generate-location-qr", PostInclude>> }

\* The direct fetch calls of PreviousMeals
PreviousMealsFetches ==
    { <<"/api/walking-time", Post>>,
      <<"/api/refresh-photos", Post>> }

\* The direct fetch calls of AIRecommendation
AIRecommendationFetches ==
    { <<"/api/user/profile", GetInclude>>,
      <<"/api/recommend-restaurant", PostInclude>> }

\* The direct fetch call of App
AppFetches == { <<"/api/user/profile", OnlyInclude>> }

\* The direct fetch call of FindRestaurantsButton
FindRestaurantsButtonFetches == { <<"/api/nearby-restaurants", Post>> }

DirectFetches ==
    FilterSlidersFetches \cup InputBarFetches \cup HomeFetches
        \cup PreviousMealsFetches \cup AIRecommendationFetches \cup AppFetches
        \cup FindRestaurantsButtonFetches

\* The apiCall calls of Profile, PreviousMeals, Sidebar and SignIn
ApiCalls ==
    { <<"/api/user/profile", NoOptions>>,
      <<"/api/user/profile", [method |-> "PATCH"]>>,
      <<"/api/logout", Post>>,
      <<"/api/user/profile-image", Post>>,
      <<"/api/user/previous-meals", [method |-> "DELETE"]>>,
      <<"/api/login", Post>> }

NetInit == requestLog = <<>>

\* A component calls fetch directly.
DirectFetch(site) ==
    /\ UNCHANGED <<filterVars, homeVars, aiVars, chatVars, pageVars>>
    /\ Len(requestLog) < MaxRequests
    /\ requestLog' = Append(requestLog, Fetch(site[1], site[2]))

\* A component calls apiCall.
ViaApiCall(site) ==
    /\ UNCHANGED <<filterVars, homeVars, aiVars, chatVars, pageVars>>
    /\ Len(requestLog) < MaxRequests
    /\ requestLog' = Append(requestLog, apiCall(site[1], site[2]))

NextRequests ==
    \/ \E site \in DirectFetches : DirectFetch(site)
    \/ \E site \in ApiCalls : ViaApiCall(site)

(***************************************************************************)
(*                         Home: the conversation                          *)
(***************************************************************************)

MaxSends == 2

\* What the user types (sendMessageBubble sends only non-empty input)
UserTexts == {"pizza"}

\* The filter objects InputBar passes to onSendMessage (its currentFilters
\* at the time of the send)
SentFilters == {"F1", "F2"}

Thinking == "Thinking..."

\* The answers to POST /api/message as the continuations tell them apart:
\* data.type 'restaurant' with a restaurant, 'no_results', anything else, and
\* a rejected fetch or unreadable body.
MessageAnswers == {"restaurant", "no_results", "text", "error"}

ChatInit ==
    /\ messages = <<>>
    /\ nextId = 1
    /\ messageRequests = {}
    /\ homeIsLoading = FALSE
    /\ homeCurrentFilters = Null
    /\ sentWith = [id \in {} |-> Null]

\* A map that replaces every AI message, whatever its id.
ReplaceEveryAI(msgs, id, text, restaurant) ==
    [i \in 1..Len(msgs) |->
        IF msgs[i].type = "ai"
        THEN [msgs[i] EXCEPT !.text = text, !.restaurant = restaurant]
        ELSE msgs[i]]

\* prev.map(msg => msg.id === aiMessageId ? {...msg, text, restaurant} : msg)
ReplaceMessage(msgs, id, text, restaurant) ==
    [i \in 1..Len(msgs) |->
        IF msgs[i].id = id
        THEN [msgs[i] EXCEPT !.text = text, !.restaurant = restaurant]
        ELSE msgs[i]]

\* The text an answer puts into the AI message: '' under a restaurant card,
\* data.message or data.aiResponse, or the error text.
AnswerText(answer) ==
    CASE answer = "restaurant" -> ""
      [] answer = "no_results" -> "no results"
      [] answer = "text" -> "answer"
      [] answer = "error" -> "There was an error contacting the AI."

\* sendMessage on the conversation: setCurrentFilters(filters), the user
\* message with id Date.now(), the 'Thinking...' message with id
\* Date.now() + 1, setIsLoading(true), and the POST to /api/message with
\* preferences.filters = filters.
AppendExchange(text, sent) ==
    /\ Len(messages) < 2 * MaxSends
    /\ homeCurrentFilters' = sent
    /\ sentWith' = [id \in DOMAIN sentWith \cup {nextId + 1} |->
                       IF id = nextId + 1 THEN sent ELSE sentWith[id]]
    /\ messages' = messages \o
          << [id |-> nextId, type |-> "user", text |-> text, restaurant |-> FALSE],
             [id |-> nextId + 1, type |-> "ai", text |-> Thinking, restaurant |-> FALSE] >>
    /\ nextId' = nextId + 2
    /\ messageRequests' = messageRequests
          \cup {[id |-> nextId + 1, kind |-> "send", filters |-> sent]}
    /\ homeIsLoading' = TRUE

\* sendMessage(text, filters) up to its await (InputBar is rendered in every
\* view mode and does not look at isLoading).
SendMessageText(text, sent) ==
    /\ UNCHANGED <<filterVars, aiVars, netVars, pageVars>>
    /\ SendMessageQR
    /\ AppendExchange(text, sent)

\* A regenerate that sends the filters of the message's original request.
RegenerateFiltersOfMessage(id) == sentWith[id]

\* preferences.filters of handleRegenerate's request: the currentFilters
\* state of the render the handler belongs to.
RegenerateFilters(id) == homeCurrentFilters

\* A ChatArea that shows "Generate Another" under every AI message that
\* follows a user message, the 'Thinking...' placeholder included.
CanRegenerateWhileThinking(i) ==
    /\ ViewMode = "chat"
    /\ i \in 1..Len(messages)
    /\ messages[i].type = "ai"
    /\ \E j \in 1..(i - 1) : messages[j].type = "user" /\ messages[j].text # ""

\* ChatArea shows "Generate Another" under the AI message at index i: under a
\* restaurant card, or under a text other than 'Thinking...', when a user
\* message precedes it.
CanRegenerate(i) ==
    /\ ViewMode = "chat"
    /\ i \in 1..Len(messages)
    /\ messages[i].type = "ai"
    /\ messages[i].restaurant \/ messages[i].text # Thinking
    /\ \E j \in 1..(i - 1) : messages[j].type = "user" /\ messages[j].text # ""

\* handleRegenerate(userMessage, aiMessageId) up to its await: the AI message
\* is set back to 'Thinking...' without its restaurant, setIsLoading(true),
\* and the POST to /api/message with generateAnother.
HandleRegenerate(i) ==
    /\ UNCHANGED <<filterVars, homeVars, aiVars, netVars, pageVars>>
    /\ mounted
    /\ CanRegenerate(i)
    /\ messages' = ReplaceMessage(messages, messages[i].id, Thinking, FALSE)
    /\ messageRequests' = messageRequests
          \cup {[id |-> messages[i].id, kind |-> "regenerate",
                 filters |-> RegenerateFilters(messages[i].id)]}
    /\ homeIsLoading' = TRUE
    /\ UNCHANGED <<nextId, homeCurrentFilters, sentWith>>

\* sendMessage or handleRegenerate resumes with the answer: the AI message
\* with the request's id gets the answer (the restaurant only with a
\* restaurant answer); finally setIsLoading(false).
MessageAnswered(req, answer) ==
    /\ UNCHANGED <<filterVars, homeVars, aiVars, netVars, pageVars>>
    /\ mounted
    /\ req \in messageRequests
    /\ messages' = ReplaceMessage(messages, req.id, AnswerText(answer),
                                  answer = "restaurant")
    /\ messageRequests' = messageRequests \ {req}
    /\ homeIsLoading' = FALSE
    /\ UNCHANGED <<nextId, homeCurrentFilters, sentWith>>

NextChat ==
    \/ ProfileLoaded
    \/ \E outcome \in ProfileFailures, saved \in BOOLEAN : ProfileFailed(outcome, saved)
    \/ \E text \in UserTexts, sent \in SentFilters : SendMessageText(text, sent)
    \/ \E i \in 1..(2 * MaxSends) : HandleRegenerate(i)
    \/ \E req \in messageRequests, answer \in MessageAnswers : MessageAnswered(req, answer)

(***************************************************************************)
(*                             PreviousMeals                               *)
(***************************************************************************)

MaxMeals == 2

\* Restaurant names and search inputs, as sequences of characters
MealNames == { <<"p", "i">>, <<"s", "o">> }
Queries == { <<>>, <<"p">>, <<"p", "i">>, <<"o">> }

\* Timestamps; 1 and 2 fall on the same day, 3 on the next
Stamps == {1, 2, 3}
DateOf(stamp) == (stamp + 1) \div 2

\* The lists the server can return: at most MaxMeals distinct meals
MealRecords == [name : MealNames, timestamp : Stamps]
MealLists ==
    { l \in UNION { [1..n -> MealRecords] : n \in 0..MaxMeals } :
        \A i, j \in 1..Len(l) : i # j => l[i] # l[j] }

MealsInit ==
    /\ mealsMounted = TRUE
    /\ searchQuery = <<>>
    /\ debouncedSearchQuery = <<>>
    /\ searchTimers = { <<>> }
    /\ searchTimeoutRef = <<>>
    /\ previousMeals = <<>>
    /\ mealsLoading = TRUE
    /\ removeRequest = Null

\* An effect that starts its timeout without clearing the one before.
DebounceEffectNoClear(timers, ref, query) == timers \cup {query}

\* The debounce effect after a change of searchQuery: the cleanup of the
\* effect before and the effect itself clear searchTimeoutRef.current, then
\* the effect starts the timeout that captures this render's searchQuery.
DebounceEffect(timers, ref, query) == (timers \ {ref}) \cup {query}

\* onChange of the search input: setSearchQuery(value), and the debounce
\* effect of the commit (it runs only when searchQuery changed).
Keystroke(value) ==
    /\ UNCHANGED <<filterVars, homeVars, aiVars, netVars, chatVars, appVars, toastVars>>
    /\ mealsMounted
    /\ value # searchQuery
    /\ searchQuery' = value
    /\ searchTimers' = DebounceEffect(searchTimers, searchTimeoutRef, value)
    /\ searchTimeoutRef' = value
    /\ UNCHANGED <<mealsMounted, debouncedSearchQuery, previousMeals, mealsLoading,
                   removeRequest>>

\* A 150 ms timeout fires: setDebouncedSearchQuery(the captured searchQuery)
DebounceTimer(t) ==
    /\ UNCHANGED <<filterVars, homeVars, aiVars, netVars, chatVars, appVars, toastVars>>
    /\ mealsMounted
    /\ t \in searchTimers
    /\ searchTimers' = searchTimers \ {t}
    /\ debouncedSearchQuery' = t
    /\ UNCHANGED <<mealsMounted, searchQuery, searchTimeoutRef, previousMeals,
                   mealsLoading, removeRequest>>

\* String.prototype.includes on sequences of characters
IncludesTerm(text, term) ==
    \E k \in 0..(Len(text) - Len(term)) :
        \A i \in 1..Len(term) : text[k + i] = term[i]

\* filteredMeals: every meal for an empty query, else those whose name
\* includes it (the meals here carry no address)
FilteredMeals(meals, query) ==
    IF query = <<>> THEN meals
    ELSE SelectSeq(meals, LAMBDA meal : IncludesTerm(meal.name, query))

\* Array.prototype.sort by timestamp, most recent first; the sort is stable.
RECURSIVE SortByTimestamp(_)
SortByTimestamp(meals) ==
    IF meals = <<>> THEN <<>>
    ELSE LET sorted == SortByTimestamp(SubSeq(meals, 1, Len(meals) - 1))
             meal == meals[Len(meals)]
             n == Cardinality({ i \in 1..Len(sorted) :
                                  sorted[i].timestamp >= meal.timestamp })
         IN  SubSeq(sorted, 1, n) \o <<meal>> \o SubSeq(sorted, n + 1, Len(sorted))

\* groupedMeals[date]: the filtered meals of that date, most recent first
GroupedMeals(meals, query, date) ==
    SortByTimestamp(SelectSeq(FilteredMeals(meals, query),
                              LAMBDA meal : DateOf(meal.timestamp) = date))

\* <RestaurantCard meal={meal} index={mealIndex}/>: the index of the k-th
\* card of a date group is its place in that group, counted from 0.
CardIndex(meals, query, date, k) == k - 1

\* fetchPreviousMeals resumes with the profile: setPreviousMeals, and
\* finally setLoading(false).
MealsFetched(list) ==
    /\ UNCHANGED <<filterVars, homeVars, aiVars, netVars, chatVars, appVars, toastVars>>
    /\ mealsMounted /\ mealsLoading
    /\ previousMeals' = list
    /\ mealsLoading' = FALSE
    /\ UNCHANGED <<mealsMounted, searchQuery, debouncedSearchQuery, searchTimers,
                   searchTimeoutRef, removeRequest>>

\* fetchPreviousMeals fails: the list stays, finally setLoading(false).
MealsFetchFailed ==
    /\ UNCHANGED <<filterVars, homeVars, aiVars, netVars, chatVars, appVars, toastVars>>
    /\ mealsMounted /\ mealsLoading
    /\ mealsLoading' = FALSE
    /\ UNCHANGED <<mealsMounted, searchQuery, debouncedSearchQuery, searchTimers,
                   searchTimeoutRef, previousMeals, removeRequest>>

\* Remove on the k-th card of a date group (the cards are rendered when not
\* loading): handleRemoveMeal(index) sends DELETE
\* /api/user/previous-meals/{index}.
PressRemove(date, k) ==
    /\ UNCHANGED <<filterVars, homeVars, aiVars, netVars, chatVars, appVars, toastVars>>
    /\ mealsMounted /\ ~mealsLoading
    /\ removeRequest = Null
    /\ k \in 1..Len(GroupedMeals(previousMeals, debouncedSearchQuery, date))
    /\ removeRequest' =
          [index |-> CardIndex(previousMeals, debouncedSearchQuery, date, k),
           meal |-> GroupedMeals(previousMeals, debouncedSearchQuery, date)[k]]
    /\ UNCHANGED <<mealsMounted, searchQuery, debouncedSearchQuery, searchTimers,
                   searchTimeoutRef, previousMeals, mealsLoading>>

\* handleRemoveMeal resumes: after a 2xx answer fetchPreviousMeals is called
\* (setLoading(true)); otherwise only a toast is shown.
RemoveAnswered(ok) ==
    /\ UNCHANGED <<filterVars, homeVars, aiVars, netVars, chatVars, appVars, toastVars>>
    /\ mealsMounted
    /\ removeRequest # Null
    /\ removeRequest' = Null
    /\ mealsLoading' = (mealsLoading \/ ok)
    /\ UNCHANGED <<mealsMounted, searchQuery, debouncedSearchQuery, searchTimers,
                   searchTimeoutRef, previousMeals>>

\* The page unmounts: the cleanup of the debounce effect clears the timeout.
MealsUnmount ==
    /\ UNCHANGED <<filterVars, homeVars, aiVars, netVars, chatVars, appVars, toastVars>>
    /\ mealsMounted
    /\ mealsMounted' = FALSE
    /\ searchTimers' = searchTimers \ {searchTimeoutRef}
    /\ UNCHANGED <<searchQuery, debouncedSearchQuery, searchTimeoutRef, previousMeals,
                   mealsLoading, removeRequest>>

NextMeals ==
    \/ \E value \in Queries : Keystroke(value)
    \/ \E t \in searchTimers : DebounceTimer(t)
    \/ \E list \in MealLists : MealsFetched(list)
    \/ MealsFetchFailed
    \/ \E date \in {DateOf(stamp) : stamp \in Stamps}, k \in 1..MaxMeals : PressRemove(date, k)
    \/ \E ok \in BOOLEAN : RemoveAnswered(ok)
    \/ MealsUnmount

(***************************************************************************)
(*                      App: authentication and routes                     *)
(***************************************************************************)

MaxAuth == 3

\* The paths of App's routes; "/other" stands for every path matched by "*"
ProtectedPaths == {"/home", "/profile", "/previous-meals", "/settings"}
PublicPaths == {"/signin", "/signup"}
Paths == ProtectedPaths \cup PublicPaths \cup {"/", "/other"}

\* How a request of handleLogout or handleSignIn ends: a 2xx response,
\* another response, a rejected fetch
AuthOutcomes == {"ok", "non2xx", "throws"}

AppInit ==
    /\ appIsLoading = TRUE
    /\ appIsAuthenticated = FALSE
    /\ pathname = "/"
    /\ authRequests = {}
    /\ nextAuth = 1
    /\ homeTimers = 0
    /\ authToast = ""

\* A ProtectedRoute that renders its children whatever the context says.
ProtectedRouteOpen(auth, path) == [page |-> path]

\* ProtectedRoute: the children when auth.isAuthenticated, else
\* <Navigate to="/signin" replace />
ProtectedRoute(auth, path) ==
    IF auth THEN [page |-> path] ELSE [navigate |-> "/signin"]

\* PublicRoute: the children when not auth.isAuthenticated, else
\* <Navigate to="/home" replace />
PublicRoute(auth, path) ==
    IF ~auth THEN [page |-> path] ELSE [navigate |-> "/home"]

\* The element <Routes> renders for a path
RouteElement(path, auth) ==
    CASE path = "/" -> [navigate |-> IF auth THEN "/home" ELSE "/signin"]
      [] path \in PublicPaths -> PublicRoute(auth, path)
      [] path \in ProtectedPaths -> ProtectedRoute(auth, path)
      [] OTHER -> [navigate |-> "/"]

\* The path the router is at once every <Navigate> rendered on the way has
\* navigated
RECURSIVE Redirected(_, _)
Redirected(path, auth) ==
    IF "navigate" \in DOMAIN RouteElement(path, auth)
    THEN Redirected(RouteElement(path, auth).navigate, auth)
    ELSE path

\* What App renders: the loading screen while isLoading, else the page of
\* the route element ("none" while the element is a <Navigate>)
RenderedPage ==
    IF appIsLoading THEN "loading"
    ELSE IF "page" \in DOMAIN RouteElement(pathname, appIsAuthenticated)
    THEN RouteElement(pathname, appIsAuthenticated).page
    ELSE "none"

\* The page is loaded at a URL: App mounts anew, the requests and timeouts of
\* the page before are gone, checkAuthStatus sends GET /api/user/profile.
OpenUrl(path) ==
    /\ UNCHANGED <<filterVars, homeVars, aiVars, netVars, chatVars, mealVars, toastVars>>
    /\ appIsLoading' = TRUE
    /\ appIsAuthenticated' = FALSE
    /\ pathname' = path
    /\ authRequests' = {}
    /\ homeTimers' = 0
    /\ authToast' = ""
    /\ UNCHANGED nextAuth

\* checkAuthStatus resumes: setIsAuthenticated(response.ok), or false after
\* a rejected fetch; finally setIsLoading(false).  The routes are rendered
\* for the first time.
AuthChecked(outcome) ==
    /\ UNCHANGED <<filterVars, homeVars, aiVars, netVars, chatVars, mealVars, toastVars>>
    /\ appIsLoading
    /\ appIsLoading' = FALSE
    /\ appIsAuthenticated' = (outcome = "ok")
    /\ pathname' = Redirected(pathname, outcome = "ok")
    /\ UNCHANGED <<authRequests, nextAuth, homeTimers, authToast>>

\* A <Link> of the Sidebar, navigate('/signup') of SignIn, or the browser's
\* history moves the router to path.
NavigateTo(path) ==
    /\ UNCHANGED <<filterVars, homeVars, aiVars, netVars, chatVars, mealVars, toastVars>>
    /\ ~appIsLoading
    /\ pathname' = Redirected(path, appIsAuthenticated)
    /\ UNCHANGED <<appIsLoading, appIsAuthenticated, authRequests, nextAuth,
                   homeTimers, authToast>>

\* handleSignIn with valid input, on the sign-in page: POST /api/login.
SubmitSignIn ==
    /\ UNCHANGED <<filterVars, homeVars, aiVars, netVars, chatVars, mealVars, toastVars>>
    /\ RenderedPage = "/signin"
    /\ nextAuth <= MaxAuth
    /\ authRequests' = authRequests \cup {[id |-> nextAuth, from |-> "SignIn"]}
    /\ nextAuth' = nextAuth + 1
    /\ UNCHANGED <<appIsLoading, appIsAuthenticated, pathname, homeTimers, authToast>>

\* handleSignIn resumes: after a 2xx response showToast('Login successful!'),
\* setIsAuthenticated(true) and the 1200 ms timeout of navigate('/home');
\* otherwise only a toast.
SignInAnswered(req, outcome) ==
    /\ UNCHANGED <<filterVars, homeVars, aiVars, netVars, chatVars, mealVars, toastVars>>
    /\ req \in authRequests /\ req.from = "SignIn"
    /\ authRequests' = authRequests \ {req}
    /\ IF outcome = "ok"
       THEN /\ authToast' = "Login successful!"
            /\ appIsAuthenticated' = TRUE
            /\ pathname' = Redirected(pathname, TRUE)
            /\ homeTimers' = homeTimers + 1
       ELSE /\ authToast' = (IF outcome = "throws"
                             THEN "Network error. Please try again."
                             ELSE "Login failed.")
            /\ UNCHANGED <<appIsAuthenticated, pathname, homeTimers>>
    /\ UNCHANGED <<appIsLoading, nextAuth>>

\* The 1200 ms timeout of handleSignIn fires: navigate('/home').
HomeTimer ==
    /\ UNCHANGED <<filterVars, homeVars, aiVars, netVars, chatVars, mealVars, toastVars>>
    /\ homeTimers > 0
    /\ homeTimers' = homeTimers - 1
    /\ pathname' = Redirected("/home", appIsAuthenticated)
    /\ UNCHANGED <<appIsLoading, appIsAuthenticated, authRequests, nextAuth, authToast>>

\* handleLogout of the Sidebar (on every protected page) or of Profile:
\* POST /api/logout.
ClickLogout(from) ==
    /\ UNCHANGED <<filterVars, homeVars, aiVars, netVars, chatVars, mealVars, toastVars>>
    /\ IF from = "Profile" THEN RenderedPage = "/profile"
       ELSE RenderedPage \in ProtectedPaths
    /\ nextAuth <= MaxAuth
    /\ authRequests' = authRequests \cup {[id |-> nextAuth, from |-> from]}
    /\ nextAuth' = nextAuth + 1
    /\ UNCHANGED <<appIsLoading, appIsAuthenticated, pathname, homeTimers, authToast>>

\* handleLogout resumes.  The Sidebar's: after any response
\* setIsAuthenticated(false), navigate('/signin') and a toast; after a
\* rejected fetch only showToast('Logout failed. Please try again.').
\* Profile's: after any response navigate('/signin'); a rejected fetch is
\* not caught.
LogoutAnswered(req, outcome) ==
    /\ UNCHANGED <<filterVars, homeVars, aiVars, netVars, chatVars, mealVars, toastVars>>
    /\ req \in authRequests /\ req.from # "SignIn"
    /\ authRequests' = authRequests \ {req}
    /\ IF outcome = "throws"
       THEN /\ authToast' = (IF req.from = "Sidebar"
                             THEN "Logout failed. Please try again."
                             ELSE authToast)
            /\ UNCHANGED <<appIsAuthenticated, pathname>>
       ELSE IF req.from = "Sidebar"
       THEN /\ appIsAuthenticated' = FALSE
            /\ pathname' = Redirected("/signin", FALSE)
            /\ authToast' = "Logged out successfully"
       ELSE /\ pathname' = Redirected("/signin", appIsAuthenticated)
            /\ UNCHANGED <<appIsAuthenticated, authToast>>
    /\ UNCHANGED <<appIsLoading, nextAuth, homeTimers>>

NextApp ==
    \/ \E path \in Paths : OpenUrl(path)
    \/ \E outcome \in AuthOutcomes : AuthChecked(outcome)
    \/ \E path \in Paths : NavigateTo(path)
    \/ SubmitSignIn
    \/ \E req \in authRequests, outcome \in AuthOutcomes : SignInAnswered(req, outcome)
    \/ HomeTimer
    \/ \E from \in {"Sidebar", "Profile"} : ClickLogout(from)
    \/ \E req \in authRequests, outcome \in AuthOutcomes : LogoutAnswered(req, outcome)

(***************************************************************************)
(*                             ToastProvider                               *)
(***************************************************************************)

MaxToasts == 3
MaxClock == 4

\* The durations passed to showToast, in clock ticks
Durations == {1, 2}

ToastInit ==
    /\ toasts = <<>>
    /\ toastClock = 1
    /\ toastTimers = {}
    /\ nextToast = 1

\* showToast(message, type, duration): the id is Date.now().toString(),
\* setToasts([newToast]), and the timeout that removes the toasts with this
\* id after duration.  seq numbers the calls; the code does not have it.
ShowToast(duration) ==
    /\ UNCHANGED <<filterVars, homeVars, aiVars, netVars, chatVars, mealVars, appVars>>
    /\ nextToast <= MaxToasts
    /\ toasts' = << [id |-> toastClock, duration |-> duration, seq |-> nextToast] >>
    /\ toastTimers' = toastTimers
          \cup {[id |-> toastClock, due |-> toastClock + duration, seq |-> nextToast]}
    /\ nextToast' = nextToast + 1
    /\ UNCHANGED toastClock

\* A timeout of showToast fires when it is due:
\* setToasts(prev => prev.filter(toast => toast.id !== id))
ToastTimer(t) ==
    /\ UNCHANGED <<filterVars, homeVars, aiVars, netVars, chatVars, mealVars, appVars>>
    /\ t \in toastTimers
    /\ t.due <= toastClock
    /\ toastTimers' = toastTimers \ {t}
    /\ toasts' = SelectSeq(toasts, LAMBDA toast : toast.id # t.id)
    /\ UNCHANGED <<toastClock, nextToast>>

\* A millisecond passes: Date.now() moves on.  Timeouts fire when due, so
\* time passes only when none is due.
ToastTick ==
    /\ UNCHANGED <<filterVars, homeVars, aiVars, netVars, chatVars, mealVars, appVars>>
    /\ toastClock < MaxClock
    /\ \A t \in toastTimers : t.due > toastClock
    /\ toastClock' = toastClock + 1
    /\ UNCHANGED <<toasts, toastTimers, nextToast>>

NextToasts ==
    \/ \E duration \in Durations : ShowToast(duration)
    \/ \E t \in toastTimers : ToastTimer(t)
    \/ ToastTick

(***************************************************************************)
(*                            Specifications                               *)
(***************************************************************************)

Init == HomeInit /\ FiltersInit /\ AIInit /\ NetInit /\ ChatInit /\ MealsInit /\ AppInit /\ ToastInit

\* Home alone: the filter editor stays as constructed.
SpecHome == Init /\ [][NextHome]_vars

\* The filter editor alone: Home stays as constructed.
SpecFilters == Init /\ [][NextFilters]_vars

\* AIRecommendation alone
SpecAI == Init /\ [][NextAI]_vars

\* The requests alone
SpecRequests == Init /\ [][NextRequests]_vars

\* Home's conversation, with the identity resolution that shows ChatArea
SpecChat == Init /\ [][NextChat]_vars

\* The PreviousMeals page alone
SpecMeals == Init /\ [][NextMeals]_vars

\* The PreviousMeals page with its timeouts firing: a pending timeout is run
\* by the browser's event loop once it is due.
SpecMealsLive ==
    SpecMeals /\ WF_vars(\E t \in searchTimers : DebounceTimer(t))

\* App alone: authentication and routes
SpecApp == Init /\ [][NextApp]_vars

\* ToastProvider alone
SpecToasts == Init /\ [][NextToasts]_vars

Next ==
    \/ NextHome
    \/ NextFilters
    \/ NextAI
    \/ NextRequests
    \/ NextChat
    \/ NextMeals
    \/ NextApp
    \/ NextToasts

Spec == Init /\ [][Next]_vars

(***************************************************************************)
(*                              Properties                                 *)
(***************************************************************************)

\* C1: the 'hide-qr-code' handler and the 'desktop-location-update' handler
\* clear the session token and the QR image and set the interaction flag and
\* the forced-hide flag in one commit: the step of either handler ends with
\* all four done and the chat rendered, and the render between the
\* location-update handler's flushSync and the rest of the handler shows all
\* four done.
C1_HideIsOneCommit ==
    /\ [](pendingEvent # Null =>
            /\ qrToken = 0 /\ qrCode = 0
            /\ hasUserInteracted /\ forceHideQR
            /\ ViewMode = "chat")
    /\ [][(OnHideQrCode \/ (pendingEvent = Null /\ pendingEvent' # Null))
            => /\ qrToken' = 0 /\ qrCode' = 0
               /\ hasUserInteracted' /\ forceHideQR'
               /\ ViewModeNext = "chat"]_vars

\* C1 happens: a location update arrived while the QR prompt was shown, and
\* the render inside the handler shows the chat with token and image cleared.
C1_Witness ==
    /\ pendingEvent # Null
    /\ pendingEvent.shownBefore
    /\ qrToken = 0 /\ qrCode = 0
    /\ ViewMode = "chat"

\* The members of a sequence
Range(arr) == { arr[i] : i \in 1..Len(arr) }

\* A sequence in strictly ascending order
IsAscending(arr) == \A i \in 1..(Len(arr) - 1) : arr[i] < arr[i + 1]

C3_LastWriteWins ==
    /\ [][(pendingEvent # Null /\ pendingEvent' = Null
             /\ HasCoordinates(pendingEvent.data)) =>
            mobileLocation' =
                [latitude |-> pendingEvent.data.latitude,
                 longitude |-> pendingEvent.data.longitude,
                 accuracy |-> IF pendingEvent.data.accuracy = NoAccuracy
                              THEN 0 ELSE pendingEvent.data.accuracy]]_vars
    /\ [][mobileLocation' # mobileLocation =>
            \/ pendingEvent # Null /\ HasCoordinates(pendingEvent.data)
            \/ mobileLocation' = Null]_vars

\* C3 happens: a coordinate produced before the one held arrived after it and
\* replaced it.
C3_Witness ==
    /\ pendingEvent = Null
    /\ lastWriteStale
    /\ mobileLocation # Null

\* C4, as stated: loading is rendered exactly when the user id is empty; the
\* QR prompt exactly when the user id is set, a session token is present and
\* neither flag is set; the chat exactly when the user id is set and the
\* session token is absent or a flag is set.
C4_ViewModeByToken ==
    /\ ViewMode = "loading" <=> currentUserId = 0
    /\ ViewMode = "qr-prompt" <=>
          currentUserId # 0 /\ qrToken # 0 /\ ~hasUserInteracted /\ ~forceHideQR
    /\ ViewMode = "chat" <=>
          currentUserId # 0 /\ (qrToken = 0 \/ hasUserInteracted \/ forceHideQR)

\* C4, amended: the view mode follows the QR image, not the session token.
\* Loading is rendered exactly when the user id is empty; the QR prompt
\* exactly when the user id is set, a QR image is held and neither flag is
\* set, and then a session token is held too; the chat exactly when the user
\* id is set and the QR image is absent or a flag is set.
C4_ViewModeByImage ==
    /\ ViewMode = "loading" <=> currentUserId = 0
    /\ ViewMode = "qr-prompt" <=>
          currentUserId # 0 /\ qrCode # 0 /\ ~hasUserInteracted /\ ~forceHideQR
    /\ ViewMode = "chat" <=>
          currentUserId # 0 /\ (qrCode = 0 \/ hasUserInteracted \/ forceHideQR)
    /\ ViewMode = "qr-prompt" => qrToken # 0

\* C4 happens: the chat is rendered although a session token is held and no
\* flag is set (the image was cleared for a new request, the token was not).
C4_Witness ==
    /\ ViewMode = "chat"
    /\ qrToken # 0 /\ qrCode = 0
    /\ ~hasUserInteracted /\ ~forceHideQR

\* C5, as stated: once the forced-hide flag is set it stays set, and no later
\* step renders the QR prompt.
C5_ForceHideStays ==
    [][forceHideQR => (forceHideQR' /\ ViewModeNext # "qr-prompt")]_vars

\* C6, as stated: a QR token is requested only after a check answered
\* showQR = true.
C6_OnlyAfterShowQR ==
    \A r \in genRequests : r.after[2] = "showQR"

\* C6, amended: a QR token is requested only once the identity is resolved,
\* and only after a check answered showQR = true or after the check without
\* coordinates failed (non-2xx status or rejected fetch); a QR image is only
\* displayed by the response to such a request.
C6_OnlyAfterCheck ==
    /\ [](\A r \in genRequests :
            \/ r.after[2] = "showQR"
            \/ r.after[1] = "nogps" /\ r.after[2] \in {"non2xx", "error"})
    /\ []((genRequests # {} \/ qrCode # 0) =>
            currentUserId # 0 /\ profileFetch # "pending")
    /\ [][(qrCode' # 0 /\ qrCode' # qrCode) =>
            \E r \in genRequests : r \notin genRequests']_vars

\* C6 happens: the check without coordinates failed with a rejected fetch,
\* and a QR token has been requested all the same.
C6_Witness ==
    /\ currentUserId # 0
    /\ \E r \in genRequests : r.after = <<"nogps", "error">>

\* C7: once the QR prompt has been left for a session token, it is not
\* rendered again while that token is the one held.
C7_PromptToChatOneWay ==
    ViewMode = "qr-prompt" => qrToken \notin leftTokens

\* C7 happens: the prompt was left by the user sending a message, the token
\* is still held and both flags have been reset by a new request, and the
\* chat is rendered.
C7_Witness ==
    /\ qrToken \in leftTokens
    /\ ~hasUserInteracted /\ ~forceHideQR
    /\ ViewMode = "chat"

\* C8: when the response to a QR-token request names a user id other than
\* the one sent, Home takes the server's id; when that changes the id Home
\* holds, the socket of before is closed, a new one is opened and is the one
\* Home uses from then on, and the join for the token just issued is emitted
\* on the new socket.
C8_AdoptServerUserId ==
    [][\A r \in genRequests, dataUserId \in 1..MaxUser, hasQr \in BOOLEAN :
         (GenSucceeded(r, dataUserId, hasQr) /\ dataUserId # r.uid) =>
            /\ currentUserId' = dataUserId
            /\ currentUserId' # currentUserId =>
                  /\ socket \notin openSockets'
                  /\ socket' # socket
                  /\ openSockets' = {socket'}
                  /\ hasQr => /\ qrToken' = nextToken
                              /\ <<socket', nextToken>> \in joins']_vars

\* C8 happens: Home holds the server's user id on its second socket, which
\* has joined the room of the token held.
C8_Witness ==
    /\ mounted
    /\ currentUserId = serverUserId
    /\ socket > 1
    /\ openSockets = {socket}
    /\ qrToken # 0
    /\ <<socket, qrToken>> \in joins

\* C9: when a QR-token request fails, the QR image and the session token are
\* empty afterwards, the chat is rendered, and neither a new request nor a
\* new check is started.
C9_FailureFallsBackToChat ==
    /\ [][\A r \in genRequests : GenFailed(r) =>
            /\ qrCode' = 0 /\ qrToken' = 0
            /\ ViewModeNext = "chat"
            /\ genRequests' = genRequests \ {r}
            /\ checks' = checks]_vars
    /\ [][(lastGenResult = "failed" /\ genRequests = {} /\ checks = {}) =>
            (genRequests' = {} /\ checks' = {})]_vars

\* C9 happens: the last QR-token request failed, nothing is in flight, and
\* the chat is rendered without image or token.
C9_Witness ==
    /\ lastGenResult = "failed"
    /\ genRequests = {} /\ checks = {}
    /\ qrCode = 0 /\ qrToken = 0
    /\ ViewMode = "chat"

\* C10: at most one socket is open at any time, none before the identity is
\* resolved, the open one is the one Home holds, and none after Home has
\* unmounted.
C10_OneOpenSocket ==
    /\ Cardinality(openSockets) <= 1
    /\ openSockets \subseteq {socket}
    /\ currentUserId = 0 => openSockets = {}
    /\ ~mounted => openSockets = {}
    /\ (mounted /\ currentUserId # 0) => openSockets = {socket}

\* C10 happens: a second socket has been opened and is the only open one.
C10_Witness ==
    /\ nextSocket > 2
    /\ openSockets = {socket}
    /\ socket = nextSocket - 1

\* C11: whenever Home (mounted) holds a socket and a non-empty session token,
\* a 'join-location-session' carrying that token has been emitted on that
\* socket; this holds after a token is stored on the socket held and after
\* the socket is replaced while a token is held.
C11_JoinedWheneverBoth ==
    (mounted /\ socket # 0 /\ qrToken # 0) =>
        (socket \in openSockets /\ <<socket, qrToken>> \in joins)

\* C11 happens: the QR prompt is shown for a token stored in the commit that
\* replaced the socket, and the join for it went out on the new socket.
C11_Witness ==
    /\ mounted
    /\ ViewMode = "qr-prompt"
    /\ socket > 1
    /\ <<socket, qrToken>> \in joins
    /\ \A j \in joins : j[1] = socket

\* C12: every write of mobileLocation leaves exactly the timeout of that
\* write pending (the one of the write before is cancelled), so at most one
\* location timeout is pending, and mobileLocation goes back to null only
\* when the timeout of the most recent write fires.
C12_ExpiryFollowsLastWrite ==
    /\ [](locationTimers \subseteq {"latest"})
    /\ []((mounted /\ pendingEvent = Null /\ mobileLocation # Null)
            => locationTimers = {"latest"})
    /\ [](mobileLocation = Null => locationTimers = {})
    /\ [][(pendingEvent # Null /\ HasCoordinates(pendingEvent.data))
            => locationTimers' = {"latest"}]_vars
    /\ [][(mobileLocation # Null /\ mobileLocation' = Null)
            => ("latest" \in locationTimers /\ locationTimers' = {})]_vars

\* C12 happens: a location was written over another one that was still held,
\* and the timeout of the second write has reset mobileLocation to null.
C12_Witness ==
    /\ mounted
    /\ lastWriteStale
    /\ mobileLocation = Null
    /\ locationTimers = {}

\* C13, as stated: when updateFilters is called with the arguments of the
\* call before, it produces change records identical to those of the call
\* before, and the displayed filters do not change.
C13_RepeatIdenticalRecords ==
    [][(logPending' > logPending /\ repeated') =>
         (lastRecords' = lastRecords /\ filters' = filters)]_vars

\* C13, amended: when updateFilters is called with the arguments of the call
\* before, both calls produce a change record per key; the records of the
\* two calls agree in changeType, newValue and fullFilters; the oldValue of
\* the second call is the value the first call set (so it differs from the
\* first call's oldValue whenever the first call changed the value); and the
\* displayed filters and the parent's filters are the same after the second
\* call as after the first.
C13_RepeatSameButOldValue ==
    /\ [](repeated => lastRecords # <<>>)
    /\ [][(logPending' > logPending /\ repeated') =>
            /\ Len(lastRecords') = Len(lastRecords)
            /\ logPending' = logPending + Len(lastRecords')
            /\ \A i \in 1..Len(lastRecords') :
                  /\ lastRecords'[i].changeType = lastRecords[i].changeType
                  /\ lastRecords'[i].newValue = lastRecords[i].newValue
                  /\ lastRecords'[i].fullFilters = lastRecords[i].fullFilters
                  /\ lastRecords'[i].oldValue = lastRecords[i].newValue
            /\ filters' = filters
            /\ currentFilters' = currentFilters]_vars

\* C13 happens: the rating range has been sent twice in a row; the second
\* call produced its two records, each with oldValue equal to newValue.
C13_Witness ==
    /\ repeated
    /\ Len(lastRecords) = 2
    /\ \A i \in 1..2 : lastRecords[i].oldValue = lastRecords[i].newValue
    /\ lastRecords[1].fullFilters = filters

\* C14: the filters start as the defaults {priceLevel [2], category any,
\* maxDistance 5, minRating 4.0, maxRating 5.0}.  When the saved-preferences
\* load returns preferences P, currentFilters becomes P and the filter editor
\* holds P, whose values the Active summary renders; when the load returns
\* none or fails, nothing changes.  At all times the filter editor, when
\* shown, holds currentFilters.
C14_SavedPreferencesLoaded ==
    /\ currentFilters = [priceLevel |-> <<2>>, category |-> "any",
                         maxDistance |-> 5, minRating |-> 40, maxRating |-> 50]
    /\ [](showFilters => filters = currentFilters)
    /\ [][(prefsLoad = "pending" /\ prefsLoad' = "done") =>
            \/ LoadNoPreferences /\ currentFilters' = currentFilters
                                 /\ filters' = filters
            \/ LET P == currentFilters'
                   shown == ActiveSummary(filters')
               IN  /\ P \in SavedPreferences
                   /\ LoadSavedPreferences(P)
                   /\ filters' = P
                   /\   /\ Len(shown.prices) = Len(P.priceLevel)
                        /\ \A i \in 1..Len(P.priceLevel) :
                              Len(shown.prices[i]) = P.priceLevel[i]
                        /\ (P.category = "any") <=> (shown.category = <<>>)
                        /\ shown.distance = P.maxDistance
                        /\ shown.rating[1][1] * 10 + shown.rating[1][2] = P.minRating
                        /\ shown.rating[2][1] * 10 + shown.rating[2][2] = P.maxRating]_vars

\* C14 happens: saved preferences other than the defaults have been loaded
\* and the filter editor, shown, holds them: prices [1, 3], cafe, 2 km,
\* rating 3.5 to 5.0.
C14_Witness ==
    /\ prefsLoad = "done"
    /\ showFilters
    /\ lastRecords = <<>>
    /\ filters = [priceLevel |-> <<1, 3>>, category |-> "cafe",
                  maxDistance |-> 2, minRating |-> 35, maxRating |-> 50]
    /\ currentFilters = filters

\* An attempt to get a recommendation has ended.
AttemptEnded ==
    aiStep = "idle" /\ (alertShown # "" \/ findRestaurantsCalled \/ posted)

\* C15 as stated: when getCurrentPosition fails (or navigator.geolocation is
\* missing) and no profile read held a location, the attempt ends with the
\* message to enable location access or scan the QR code, no POST to
\* /api/recommend-restaurant is sent and no recommendation is set.
C15_EnableOrScanMessage ==
    (AttemptEnded /\ ~storedSeen /\ ~positionGranted) =>
        /\ alertShown = "enable location or scan QR"
        /\ ~posted
        /\ recommendation = Null

\* C15 amended: when getCurrentPosition fails (or navigator.geolocation is
\* missing) and no profile read held a location, the attempt ends without a
\* POST to /api/recommend-restaurant, without a recommendation and with
\* isLoading false; with the onFindRestaurants prop the callback is called
\* and no message is shown, without it the alert asks to enable location
\* access (after a failed getCurrentPosition) or says geolocation is not
\* supported.  The message that also names the QR code is shown only by
\* makeRecommendationRequest, which is reached only after a stored location
\* or a position was obtained once.
C15_NoLocationNoRecommendation ==
    /\ (AttemptEnded /\ ~storedSeen /\ ~positionGranted) =>
        /\ ~posted
        /\ recommendation = Null
        /\ ~isLoading
        /\ IF hasCallback
           THEN findRestaurantsCalled /\ alertShown = ""
           ELSE /\ ~findRestaurantsCalled
                /\ alertShown = (IF geolocationSupported THEN "enable location"
                                 ELSE "not supported")
    /\ alertShown = "enable location or scan QR" => (storedSeen \/ positionGranted)

\* getCurrentPosition failed, no profile read held a location, and the
\* attempt ended in the onFindRestaurants callback.
C15_Witness ==
    /\ AttemptEnded /\ ~storedSeen /\ ~positionGranted
    /\ geolocationSupported /\ hasCallback /\ findRestaurantsCalled

\* The step of updateFilters pushes the full updated object to the parent:
\* after it InputBar's currentFilters is the object FilterSliders displays.
PushedWithUpdate ==
    logPending' > logPending => currentFilters' = filters'

\* The answers to the two POSTs leave the displayed and the parent's filters
\* as they are.
ResponsesLeaveFilters ==
    (logPending' < logPending \/ savePending' < savePending) =>
        (filters' = filters /\ currentFilters' = currentFilters)

\* Every logging POST that ends, however it ends, is followed by the POST to
\* /api/save-preferences for the same change.
SaveSentForEveryChange ==
    logPending' < logPending => savePending' = savePending + 1

\* C16: every filter change is pushed to onFiltersChange with the full
\* updated object in the step that updates the local state, and is POSTed to
\* the logging and to the auto-save endpoint; the displayed and the parent's
\* filters are unaffected by how those requests end.
C16_PushedAndPostedToBoth ==
    [][PushedWithUpdate /\ SaveSentForEveryChange /\ ResponsesLeaveFilters]_vars

\* The parts of C16 about the state: the push happens with the update, and
\* the responses change neither object.
C16_StateUnaffectedByResponses ==
    [][PushedWithUpdate /\ ResponsesLeaveFilters]_vars

\* C17: every request the client sends to the backend carries the session
\* cookies (credentials: 'include'), through apiCall or through a direct
\* fetch.
C17_EveryRequestIncludesCredentials ==
    \A i \in 1..Len(requestLog) : requestLog[i].credentials = "include"

\* The part of C17 about apiCall: a request made through apiCall carries the
\* session cookies whatever options the call site passes.
C17_ApiCallIncludesCredentials ==
    \A site \in ApiCalls : apiCall(site[1], site[2]).credentials = "include"

\* C18: identity resolution does not block the view on an authentication
\* failure: once the profile fetch has failed (401, another non-2xx status
\* or a network error) isAuthenticated is false and currentUserId holds a
\* non-empty fallback identity, so the view is not the loading view.
C18_FailureLeavesLoading ==
    profileFetch = "failed" =>
        (~isAuthenticated /\ currentUserId # 0 /\ ViewMode # "loading")

\* The profile fetch has failed and the fallback identity is in use.
C18_Witness ==
    /\ mounted /\ profileFetch = "failed"
    /\ currentUserId = 2 /\ ~isAuthenticated /\ ViewMode # "loading"

\* C19: a session token held by Home lives at most 10 minutes: while qrToken
\* is held, the 10-minute timer started when it was stored is still pending;
\* a firing expiry timer clears the token; and the token is cleared earlier
\* when a location-update event is received.
C19_TokenLifetimeBounded ==
    /\ [](qrToken # 0 => qrToken \in expiryTimers)
    /\ [][(\E t \in expiryTimers : t \notin expiryTimers') => qrToken' = 0]_vars
    /\ [][(pendingEvent = Null /\ pendingEvent' # Null) => qrToken' = 0]_vars

\* A token was stored, then replaced by a later one, and the timer of the
\* earlier token has fired and cleared the later token before its own timer.
C19_Witness ==
    /\ mounted /\ qrToken = 0 /\ nextToken > 2
    /\ 1 \notin expiryTimers /\ 2 \in expiryTimers

\* The message list only grows, and every message keeps its place, its id
\* and its type; a user message is never changed.
KeepsEarlierMessages ==
    /\ Len(messages') >= Len(messages)
    /\ \A i \in 1..Len(messages) :
          /\ messages'[i].id = messages[i].id
          /\ messages'[i].type = messages[i].type
          /\ messages[i].type = "user" => messages'[i] = messages[i]

\* The message at index i goes from the 'Thinking...' placeholder to its
\* final response.
PlaceholderReplaced(i) ==
    messages[i].text = Thinking /\ ~messages[i].restaurant
        /\ (messages'[i].text # Thinking \/ messages'[i].restaurant)

\* The message at index i, a final response, goes back to the placeholder.
ResetToPlaceholder(i) ==
    (messages[i].text # Thinking \/ messages[i].restaurant)
        /\ messages'[i].text = Thinking /\ ~messages'[i].restaurant

\* C20 as stated: the message list is append-only in arrival order: its
\* length never decreases, the messages keep their ids and order, user
\* messages are never modified, and an existing entry only changes by the
\* replacement of the 'Thinking...' placeholder by its final response.
C20_OnlyPlaceholderReplaced ==
    [][/\ KeepsEarlierMessages
       /\ \A i \in 1..Len(messages) :
             messages'[i] # messages[i] => PlaceholderReplaced(i)]_vars

\* C20 amended: the message list is append-only in arrival order: its length
\* never decreases, the messages keep their ids and order, user messages are
\* never modified, and an existing AI entry only changes in two ways: the
\* 'Thinking...' placeholder is replaced by its final response, or
\* handleRegenerate sets a final response back to the placeholder (dropping
\* its restaurant) until the next response replaces it.
C20_PlaceholderCycle ==
    [][/\ KeepsEarlierMessages
       /\ \A i \in 1..Len(messages) :
             messages'[i] # messages[i] =>
                 (PlaceholderReplaced(i) \/ ResetToPlaceholder(i))]_vars

\* Two exchanges; the first answer, once final, has been set back to the
\* placeholder by a regeneration that is still in flight, while the second
\* answer is a restaurant.
C20_Witness ==
    /\ Len(messages) = 4
    /\ messages[2].text = Thinking
    /\ \E req \in messageRequests :
          req.id = messages[2].id /\ req.kind = "regenerate"
    /\ messages[4].restaurant

\* The index of the message with the given id
IndexOf(id) == CHOOSE i \in 1..Len(messages) : messages[i].id = id

C22_DebounceLatestOnly ==
    /\ [](Cardinality(searchTimers) <= 1)
    /\ [][(searchQuery' = searchQuery /\ mealsMounted'
             /\ \E t \in searchTimers : t \notin searchTimers')
          => debouncedSearchQuery' = searchQuery]_vars
    /\ []((mealsMounted /\ debouncedSearchQuery # searchQuery)
            => searchQuery \in searchTimers)
    /\ (debouncedSearchQuery # searchQuery)
          ~> (debouncedSearchQuery = searchQuery \/ ~mealsMounted)

\* Two keystrokes within the delay: the first value was never passed on, the
\* timeout of the second is the one pending.
C22_Witness ==
    /\ mealsMounted
    /\ searchQuery = <<"p", "i">> /\ debouncedSearchQuery = <<>>
    /\ searchTimers = { <<"p", "i">> }

\* C25: Remove on a displayed meal card requests deletion of that same
\* meal: the index of the DELETE request is the place (from 0) of the card's
\* meal in previousMeals, whatever the list, the search filter and the date
\* grouping.
C25_RemoveSendsListIndex ==
    removeRequest # Null =>
        /\ removeRequest.index < Len(previousMeals)
        /\ previousMeals[removeRequest.index + 1] = removeRequest.meal

\* C23: after a 'desktop-location-update' event, with or without
\* coordinates in its payload, processingLocationUpdateRef is reset to false
\* again: while the flag is set, the handler is still running or a
\* 2-second timeout that resets it is pending, so generateMobileQR is not
\* skipped forever.
C23_ProcessingResetPending ==
    processing => (pendingEvent # Null \/ processingTimers > 0)

\* C24: the 10-minute expiry timeout of a QR token clears qrCode and
\* qrToken only while that token is still the current one: when the
\* timeout of a token that has been replaced fires, the newer code and
\* token stay as they are.
C24_ExpiryClearsOwnTokenOnly ==
    [][\A t \in expiryTimers :
          (t \notin expiryTimers' /\ qrToken # t)
              => (qrCode' = qrCode /\ qrToken' = qrToken)]_vars

\* C26: Home's isLoading is true whenever at least one send or regenerate
\* request is in flight: when the first of two overlapping requests
\* completes, isLoading stays true until the other has completed too.
C26_LoadingWhileInFlight ==
    messageRequests # {} => homeIsLoading

\* C27: AIRecommendation never uses a stored location older than 24 hours
\* as the location of a recommendation request, whichever path led to the
\* request.
C27_NoOldStoredLocation ==
    posted => sendingLocation # "old"

\* C28 as stated: a regenerate request carries the filters that were sent
\* with the original request of its AI message.
C28_RegenerateSendsOriginalFilters ==
    \A req \in messageRequests :
        req.kind = "regenerate" => req.filters = sentWith[req.id]

\* C28 amended: Home keeps one currentFilters value, the filters of the
\* most recent sendMessage call, and every regenerate request carries that
\* value, whichever message it regenerates.
C28_RegenerateSendsLatestFilters ==
    [][\A req \in messageRequests' \ messageRequests :
          /\ req.kind = "send" => homeCurrentFilters' = req.filters
          /\ req.kind = "regenerate" =>
                /\ req.filters = homeCurrentFilters
                /\ homeCurrentFilters' = homeCurrentFilters]_vars

\* M1 was sent with F1 and M2 with F2; a regenerate of M1's answer is in
\* flight and carries F2.
C28_Witness ==
    /\ Len(messages) = 4
    /\ sentWith[messages[2].id] = "F1" /\ sentWith[messages[4].id] = "F2"
    /\ \E req \in messageRequests :
          req.id = messages[2].id /\ req.kind = "regenerate" /\ req.filters = "F2"

\* C29: route guarding in App.  While the initial authentication check has
\* not completed only the loading screen is rendered; afterwards a protected
\* page (home, profile, previous-meals, settings) is rendered only while
\* isAuthenticated is true and a public page (signin, signup) only while it
\* is false; and a logout whose request throws leaves isAuthenticated as it
\* was.
C29_RouteGuard ==
    /\ [](appIsLoading => RenderedPage = "loading")
    /\ [](RenderedPage \in ProtectedPaths => appIsAuthenticated)
    /\ [](RenderedPage \in PublicPaths => ~appIsAuthenticated)
    /\ [][(/\ \E req \in authRequests \ authRequests' : req.from = "Sidebar"
            /\ authToast' = "Logout failed. Please try again.")
             => appIsAuthenticated' = appIsAuthenticated]_vars

\* A signed-in user on a protected page whose logout request threw: the
\* page is still rendered and the user still authenticated.
C29_Witness ==
    /\ RenderedPage = "/settings"
    /\ appIsAuthenticated
    /\ authToast = "Logout failed. Please try again."

\* C30: in ToastProvider at most one toast is displayed, and it is the most
\* recently shown toast as long as its own duration has not elapsed: the
\* displayed toast is the one of the last showToast call, the toast of the
\* last call is displayed until its own timeout is due, and the timeout of
\* an earlier toast never removes a toast that was shown later.
C30_LatestUnexpiredToast ==
    /\ [](Len(toasts) <= 1)
    /\ [](toasts # <<>> => toasts[1].seq = nextToast - 1)
    /\ []((\E t \in toastTimers : t.seq = nextToast - 1 /\ t.due > toastClock)
            => toasts # <<>>)
    /\ [][\A t \in toastTimers \ toastTimers' :
             (toasts # <<>> /\ toasts' = <<>>) => toasts[1].seq = t.seq]_vars

\* C30 up to the ids: at most one toast is displayed, it is the one of the
\* last showToast call, and a timeout removes only a toast with its id; two
\* toasts have different ids when they are shown in different milliseconds.
C30_TimeoutRemovesItsId ==
    /\ [](Len(toasts) <= 1)
    /\ [](toasts # <<>> => toasts[1].seq = nextToast - 1)
    /\ [][\A t \in toastTimers \ toastTimers' :
             (toasts # <<>> /\ toasts' = <<>>) => toasts[1].id = t.id]_vars

====
